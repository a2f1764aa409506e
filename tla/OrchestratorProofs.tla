------------------------- MODULE OrchestratorProofs -------------------------
(***************************************************************************)
(* The handlers of Orchestrator.tla, for any tasks, dependencies, runners, *)
(* slots, plans and policy: the invariants and step properties of          *)
(* OrchestratorProperties.tla hold, and TaskLifecycle.tla is implemented.  *)
(*                                                                         *)
(* A handler is a loop (`schedule`), or a cascade of events that schedule, *)
(* fail their dependents and queue tasks again.  Rather than follow one    *)
(* through, the proofs name a relation between the tables before and after *)
(* (Follows, Serves, Loses), show it of each small step (an assignment, a  *)
(* noted event, a freed slot, a retry) and of one step after another, and  *)
(* let Carries take it over loops and cascades of any length.  Leads then  *)
(* says what an event does, Handles what a handler keeps, and IInv what    *)
(* holds between two handlers.                                             *)
(***************************************************************************)
EXTENDS OrchestratorProperties, FiniteSetTheorems, SequenceTheorems,
        WellFoundedInduction, TLAPS

\* How a loop or a recursion is reasoned about.

\* A set of numbers has a least one.  This and the next four are how the proofs below
\* get through the loops of the code: as facts about sets of numbers and functions.
LEMMA LeastNumber ==
  ASSUME NEW S \in SUBSET Nat, S # {}
  PROVE  \E n \in S : \A m \in S : n <= m
<1> DEFINE R == OpToRel(<, Nat)
<1>1. IsWellFoundedOn(R, Nat)
  BY NatLessThanWellFounded
<1>2. \A m, n \in Nat : <<m, n>> \in R <=> m < n
  BY Zenon DEF OpToRel
<1> HIDE DEF R
<1>3. \E n \in S : \A m \in S : ~ (<<m, n>> \in R)
  BY <1>1, WFMin
<1>4. PICK n \in S : \A m \in S : ~ (<<m, n>> \in R)
  BY <1>3
<1>5. \A m \in S : ~(m < n)
  BY <1>2, <1>4
<1>6. \A m \in S : n <= m
  BY <1>5
<1> QED
  BY <1>6

\* Induction, for a set of numbers.
LEMMA Counting ==
  ASSUME NEW P \in SUBSET Nat, 0 \in P, \A n \in P : n + 1 \in P
  PROVE  P = Nat
<1> SUFFICES ASSUME Nat \ P # {} PROVE FALSE
  OBVIOUS
<1>1. PICK n \in Nat \ P : \A m \in Nat \ P : n <= m
  BY LeastNumber
<1>2. n - 1 \in P
  BY <1>1
<1> QED
  BY <1>1, <1>2

\* The same up to a bound, for the rounds of a loop.
LEMMA CountingTo ==
  ASSUME NEW n \in Nat, NEW P, 0 \in P, \A k \in 1..n : k - 1 \in P => k \in P
  PROVE  \A k \in 0..n : k \in P
<1> DEFINE Q == {k \in Nat : k \in P \/ k > n}
<1>1. Q = Nat
  <2>1. 0 \in Q
    OBVIOUS
  <2>2. ASSUME NEW k \in Q PROVE k + 1 \in Q
    OBVIOUS
  <2> HIDE DEF Q
  <2>3. Q \in SUBSET Nat
    BY DEF Q
  <2> QED
    BY <2>1, <2>2, <2>3, Counting
<1> QED
  BY <1>1

\* f starts at v, and H[n] makes the next value from the one before.
Iterates(f, V, v, H) ==
  f \in [Nat -> V] /\ f[0] = v /\ \A n \in Nat : f[n + 1] = H[n][f[n]]

\* There is such a function: a loop can be run for ever.
LEMMA IteratesExist ==
  ASSUME NEW V, NEW v \in V, NEW H \in [Nat -> [V -> V]]
  PROVE  \E f : Iterates(f, V, v, H)
<1> DEFINE Good(n, f) == /\ f \in [Nat -> V]
                         /\ f[0] = v
                         /\ \A k \in 0..(n-1) : f[k + 1] = H[k][f[k]]
           P == {n \in Nat : \E f \in [Nat -> V] : Good(n, f)}
           
<1>1. 0 \in P
  <2> [k \in Nat |-> v] \in [Nat -> V] OBVIOUS
  <2> Good(0, [k \in Nat |-> v])
    OBVIOUS
  <2> QED OBVIOUS
<1>2. ASSUME NEW n \in P PROVE n + 1 \in P
  <2>1. PICK f \in [Nat -> V] : Good(n, f)
    OBVIOUS
  <2> DEFINE g == [f EXCEPT ![n + 1] = H[n][f[n]]]
  <2>2. n \in Nat /\ H[n][f[n]] \in V
    OBVIOUS
  <2>3. g \in [Nat -> V]
    BY <2>2
  <2>4. \A k \in Nat : g[k] = IF k = n + 1 THEN H[n][f[n]] ELSE f[k]
    BY <2>2
  <2> HIDE DEF g
  <2>5. Good(n + 1, g)
    <3>1. g[0] = v
      BY <2>1, <2>2, <2>4
    <3>2. ASSUME NEW k \in 0..n PROVE g[k + 1] = H[k][g[k]]
      <4>1. CASE k = n
        BY <4>1, <2>2, <2>4
      <4>2. CASE k # n
        <5>1. k \in 0..(n-1) /\ k + 1 \in Nat /\ k \in Nat
          BY <4>2, <2>2
        <5>2. f[k + 1] = H[k][f[k]]
          BY <2>1, <5>1
        <5> QED
          BY <5>1, <5>2, <2>4, <4>2, <2>2
      <4> QED
        BY <4>1, <4>2
    <3> QED
      BY <2>3, <3>1, <3>2, <2>2
  <2> QED
    BY <2>2, <2>3, <2>5
<1>3. P = Nat
  <2> HIDE DEF P
  <2> P \in SUBSET Nat BY DEF P
  <2> QED
  BY <1>1, <1>2, Counting
<1>4. \A n \in Nat : \E f \in [Nat -> V] : Good(n, f)
  BY <1>3
<1> DEFINE F(n) == CHOOSE f \in [Nat -> V] : Good(n, f)
           fin == [n \in Nat |-> F(n)[n]]
<1>5. \A n \in Nat : F(n) \in [Nat -> V] /\ Good(n, F(n))
  BY <1>4
<1> HIDE DEF F
<1>6. \A n \in Nat : \A m \in Nat : m >= n => \A k \in 0..n : F(m)[k] = F(n)[k]
  <2> SUFFICES ASSUME NEW n \in Nat, NEW m \in Nat, m >= n PROVE \A k \in 0..n : F(m)[k] = F(n)[k]
    OBVIOUS
  <2> DEFINE S == {k \in Nat : F(m)[k] = F(n)[k]}
  <2>1. 0 \in S
    BY <1>5
  <2>2. ASSUME NEW k \in 1..n, k - 1 \in S PROVE k \in S
    <3>1. k - 1 \in 0..(n-1) /\ k - 1 \in 0..(m-1) /\ (k - 1) + 1 = k
      OBVIOUS
    <3>2. F(n)[(k-1)+1] = H[k-1][F(n)[k-1]] /\ F(m)[(k-1)+1] = H[k-1][F(m)[k-1]]
      BY <3>1, <1>5
    <3> QED
      BY <3>1, <3>2, <2>2
  <2> HIDE DEF S
  <2>3. \A k \in 0..n : k \in S
    BY <2>1, <2>2, CountingTo
  <2> QED
    BY <2>3 DEF S
<1>7. fin \in [Nat -> V]
  BY <1>5
<1>8. fin[0] = v
  BY <1>5
<1>9. ASSUME NEW n \in Nat PROVE fin[n + 1] = H[n][fin[n]]
  <2>1. F(n + 1)[n] = F(n)[n]
    BY <1>6
  <2>2. F(n + 1)[n + 1] = H[n][F(n+1)[n]]
    <3>1. n + 1 \in Nat /\ n \in 0..((n + 1) - 1)
      OBVIOUS
    <3>2. Good(n + 1, F(n + 1))
      BY <3>1, <1>5
    <3> QED BY <3>1, <3>2
  <2> QED
    BY <2>1, <2>2
<1> QED
  BY <1>7, <1>8, <1>9 DEF Iterates

\* The values of a loop of n rounds, as the walks of State.tla define them.
IsWalk(f, n, v, H) == f = [k \in 0..n |-> IF k = 0 THEN v ELSE H[k][f[k - 1]]]

\* A loop whose rounds stay in V has its values in V.
LEMMA Walks ==
  ASSUME NEW n \in Nat, NEW V, NEW v \in V, NEW H \in [1..n -> [V -> V]]
  PROVE  \E f \in [0..n -> V] : IsWalk(f, n, v, H)
<1> DEFINE id == [x \in V |-> x]
           G == [m \in Nat |-> IF m + 1 \in 1..n THEN H[m + 1] ELSE id]
<1>1. id \in [V -> V]
  OBVIOUS
<1> HIDE DEF id
<1>2. G \in [Nat -> [V -> V]]
  BY <1>1
<1>3. \A m \in Nat : m + 1 \in 1..n => G[m] = H[m + 1]
  OBVIOUS
<1> HIDE DEF G
<1>4. PICK f : Iterates(f, V, v, G)
  BY <1>2, IteratesExist
<1> DEFINE g == [k \in 0..n |-> f[k]]
<1>5. \A k \in 0..n : g[k] = IF k = 0 THEN v ELSE H[k][g[k - 1]]
  <2> SUFFICES ASSUME NEW k \in 0..n, k # 0 PROVE g[k] = H[k][g[k - 1]]
    BY <1>4 DEF Iterates
  <2>1. k - 1 \in Nat /\ (k - 1) + 1 = k /\ k - 1 \in 0..n /\ k \in 1..n
    OBVIOUS
  <2>2. f[(k - 1) + 1] = G[k - 1][f[k - 1]]
    BY <1>4, <2>1 DEF Iterates
  <2> QED
    BY <2>1, <2>2, <1>3
<1>6. g = [k \in 0..n |-> IF k = 0 THEN v ELSE H[k][g[k - 1]]]
  <2> g = [k \in 0..n |-> g[k]]
    OBVIOUS
  <2> HIDE DEF g
  <2> QED
    BY <1>5
<1>7. g \in [0..n -> V]
  BY <1>4 DEF Iterates
<1> QED
  BY <1>6, <1>7 DEF IsWalk

-----------------------------------------------------------------------------
\* The operators of State.tla map tables to tables.

\* The runners that a task may be assigned to.
Fit(s, t, exclude) ==
  {r \in Runner : CanRun(s, r, t) /\ s.pin[t] \in {NoRunner, r} /\ r # exclude}

\* Slots are counted in numbers, and a runner has finitely many tasks.
LEMMA FreeSlotsType ==
  ASSUME NEW s \in Tables, NEW r \in Runner
  PROVE  FreeSlots(s, r) \in Nat /\ Cardinality(s.running[r]) \in Nat /\ IsFiniteSet(s.running[r])
<1>1. IsFiniteSet(s.running[r])
  BY TasksAreNumbers, FS_Subset DEF Tables
<1>2. Cardinality(s.running[r]) \in Nat
  BY <1>1, FS_CardinalityType
<1> QED
  BY <1>1, <1>2, ParametersAreTyped DEF FreeSlots

\* Of the runners that fit, one comes first: the names are numbers and break every tie.
LEMMA BestExists ==
  ASSUME NEW s \in Tables, NEW F \in SUBSET Runner, F # {}
  PROVE  \E r \in F : \A other \in F \ {r} :
           \/ FreeSlots(s, r) > FreeSlots(s, other)
           \/ FreeSlots(s, r) = FreeSlots(s, other) /\ r < other
<1> DEFINE free(r) == FreeSlots(s, r)
           Before(a, b) == free(a) > free(b) \/ (free(a) = free(b) /\ a < b)
           Best(r, G) == r \in G /\ \A other \in G \ {r} : Before(r, other)
           P == {n \in Nat : \A G \in SUBSET Runner :
                   Cardinality(G) = n /\ G # {} => \E r \in G : Best(r, G)}
<1>1. \A r \in Runner : free(r) \in Nat /\ r \in Nat
  BY FreeSlotsType, RunnersAreNumbers
<1>2. \A G \in SUBSET Runner : IsFiniteSet(G) /\ Cardinality(G) \in Nat
  BY RunnersAreNumbers, FS_Subset, FS_CardinalityType
<1> HIDE DEF free
<1>3. 0 \in P
  <2> SUFFICES ASSUME NEW G \in SUBSET Runner, Cardinality(G) = 0 PROVE G = {}
    BY DEF P
  <2> QED
    BY <1>2, FS_EmptySet
<1>4. ASSUME NEW n \in P PROVE n + 1 \in P
  <2> SUFFICES ASSUME NEW G \in SUBSET Runner, Cardinality(G) = n + 1
               PROVE  \E r \in G : Best(r, G)
    BY DEF P
  <2>1. PICK x \in G : TRUE
    BY <1>2, FS_EmptySet
  <2> DEFINE H == G \ {x}
  <2>2. Cardinality(H) = n
    BY <1>2, <2>1, FS_RemoveElement
  <2>3. CASE H = {}
    <3> Best(x, G)
      BY <2>3
    <3> QED
      BY <2>1
  <2>4. CASE H # {}
    <3>1. PICK y \in H : Best(y, H)
      BY <2>2, <2>4
    <3>2. CASE Before(x, y)
      <4> ASSUME NEW z \in G \ {x} PROVE Before(x, z)
        BY <1>1, <3>1, <3>2, <2>1
      <4> Best(x, G)
        BY <2>1
      <4> QED
        BY <2>1
    <3>3. CASE ~Before(x, y)
      <4>1. Before(y, x)
        BY <1>1, <3>1, <3>3, <2>1
      <4>2. Best(y, G)
        BY <3>1, <4>1
      <4> QED
        BY <3>1, <4>2
    <3> QED
      BY <3>2, <3>3
  <2> QED
    BY <2>3, <2>4
<1>5. P = Nat
  <2> P \in SUBSET Nat
    OBVIOUS
  <2> HIDE DEF P
  <2> QED
    BY <1>3, <1>4, Counting
<1>6. Cardinality(F) \in P
  BY <1>2, <1>5
<1> QED
  BY <1>6 DEF free

\* The candidate is one of the runners that fit, and there is one when any fits.
LEMMA CandidateFits ==
  ASSUME NEW s \in Tables, NEW t \in Task, NEW exclude
  PROVE  LET r == CandidateExcluding(s, t, exclude)
         IN  IF Fit(s, t, exclude) = {} THEN r = NoRunner ELSE r \in Fit(s, t, exclude)
<1> DEFINE F == Fit(s, t, exclude)
<1>1. CASE F = {}
  BY <1>1 DEF CandidateExcluding, Fit
<1>2. CASE F # {}
  <2> F \in SUBSET Runner
    BY DEF Fit
  <2>1. \E r \in F : \A other \in F \ {r} :
           \/ FreeSlots(s, r) > FreeSlots(s, other)
           \/ FreeSlots(s, r) = FreeSlots(s, other) /\ r < other
    BY <1>2, BestExists
  <2>2. CandidateExcluding(s, t, exclude)
          = CHOOSE r \in F : \A other \in F \ {r} :
              \/ FreeSlots(s, r) > FreeSlots(s, other)
              \/ FreeSlots(s, r) = FreeSlots(s, other) /\ r < other
    BY <1>2 DEF CandidateExcluding, Fit
  <2> HIDE DEF F
  <2>3. CandidateExcluding(s, t, exclude) \in F
    BY <2>1, <2>2
  <2> QED
    BY <1>2, <2>3 DEF F
<1> QED
  BY <1>1, <1>2

-----------------------------------------------------------------------------
\* What each elementary step does to each table.

\* x is s with the task assigned to r.
IsAssigned(s, x, t, r) ==
  /\ x \in Tables
  /\ ~OverDailyBudget(s)
  /\ r \in Fit(s, t, NoRunner)
  /\ x.created = s.created /\ x.status = s.status /\ x.pin = s.pin
  /\ x.result = s.result /\ x.requeued = s.requeued /\ x.link = s.link
  /\ x.runner = [s.runner EXCEPT ![t] = r]
  /\ x.running = [s.running EXCEPT ![r] = @ \union {t}]
  /\ x.asked = s.asked \union {<<"run", r, t>>}
  /\ x.changed = s.changed \union {t}

\* `schedule` assigns the task it looks at as IsAssigned says, or nothing changes.
LEMMA AssignNextStep ==
  ASSUME NEW s \in Tables, NEW t \in Task,
         NEW r, r = Candidate(s, t), AssignNext(s, t) # s
  PROVE  IsAssigned(s, AssignNext(s, t), t, r)
<1>1. ~OverDailyBudget(s) /\ r # NoRunner
  BY DEF AssignNext
<1>2. r \in Fit(s, t, NoRunner)
  BY <1>1, CandidateFits DEF Candidate
<1>3. r \in Runner
  BY <1>2 DEF Fit
<1>4. AssignNext(s, t) = [s EXCEPT !.runner[t]  = r,
                                   !.running[r] = @ \union {t},
                                   !.asked      = @ \union {<<"run", r, t>>},
                                   !.changed    = @ \union {t}]
  BY <1>1 DEF AssignNext
<1> DEFINE x == AssignNext(s, t)
<1>5. x \in Tables
  <2>1. /\ [s.runner EXCEPT ![t] = r] \in [Task -> Runner \union {NoRunner}]
        /\ [s.running EXCEPT ![r] = @ \union {t}] \in [Runner -> SUBSET Task]
        /\ s.changed \union {t} \in SUBSET Task
    BY <1>3 DEF Tables
  <2>2. s.asked \union {<<"run", r, t>>} \in SUBSET ({"run", "push", "discard"} \X Runner \X Task)
    BY <1>3 DEF Tables
  <2> QED
    BY <1>4, <2>1, <2>2 DEF Tables
<1>6. /\ x.created = s.created /\ x.status = s.status /\ x.pin = s.pin
      /\ x.result = s.result /\ x.requeued = s.requeued /\ x.link = s.link
  BY <1>4 DEF Tables
<1>7. /\ x.runner = [s.runner EXCEPT ![t] = r]
      /\ x.running = [s.running EXCEPT ![r] = @ \union {t}]
      /\ x.asked = s.asked \union {<<"run", r, t>>}
      /\ x.changed = s.changed \union {t}
  BY <1>4 DEF Tables
<1> QED
  BY <1>1, <1>2, <1>5, <1>6, <1>7 DEF IsAssigned

\* Offering a task leaves tables.
LEMMA OfferType ==
  ASSUME NEW s \in Tables, NEW t \in Task
  PROVE  Offer(s, t) \in Tables
  BY AssignNextStep DEF Offer, IsAssigned

\* The rounds of `schedule`.
LEMMA OfferedWalk ==
  ASSUME NEW s \in Tables
  PROVE  /\ Len(s.created) \in Nat
         /\ Offered(s)[0] = s
         /\ \A k \in 1..Len(s.created) :
              /\ s.created[k] \in Task
              /\ Offered(s)[k] = Offer(Offered(s)[k - 1], s.created[k])
<1> DEFINE n == Len(s.created)
<1>1. n \in Nat /\ \A k \in 1..n : s.created[k] \in Task
  BY DEF Tables
<1> DEFINE H == [k \in 1..n |-> [x \in Tables |-> Offer(x, s.created[k])]]
<1>2. H \in [1..n -> [Tables -> Tables]]
  BY <1>1, OfferType
<1>3. \A k \in 1..n, x \in Tables : H[k][x] = Offer(x, s.created[k])
  OBVIOUS
<1> HIDE DEF n, H
<1>4. PICK f \in [0..n -> Tables] : IsWalk(f, n, s, H)
  BY <1>1, <1>2, Walks
<1>5. f = [k \in 0..n |-> IF k = 0 THEN s ELSE Offer(f[k - 1], s.created[k])]
  <2>1. \A k \in 0..n : k # 0 => k \in 1..n /\ k - 1 \in 0..n
    BY <1>1
  <2>2. \A k \in 0..n : k # 0 => H[k][f[k - 1]] = Offer(f[k - 1], s.created[k])
    BY <2>1, <1>3
  <2> QED
    BY <1>4, <2>2 DEF IsWalk
<1>6. Offered(s) = [k \in 0..n |-> IF k = 0 THEN s ELSE Offer(Offered(s)[k - 1], s.created[k])]
  <2> DEFINE g == CHOOSE h : h = [k \in 0..n |-> IF k = 0 THEN s ELSE Offer(h[k - 1], s.created[k])]
  <2>1. Offered(s) = g
    BY DEF Offered, n
  <2>2. g = [k \in 0..n |-> IF k = 0 THEN s ELSE Offer(g[k - 1], s.created[k])]
    BY <1>5
  <2> QED
    BY <2>1, <2>2
<1>7. \A k \in 0..n : Offered(s)[k] = IF k = 0 THEN s ELSE Offer(Offered(s)[k - 1], s.created[k])
  BY <1>6
<1> QED
  BY <1>1, <1>7 DEF n

\* What every offer keeps, `schedule` keeps.
LEMMA ScheduleIn ==
  ASSUME NEW s \in Tables, NEW V, s \in V,
         \A x \in V : \A t \in Task : Offer(x, t) \in V
  PROVE  Schedule(s) \in V
<1> DEFINE n == Len(s.created)
           f == Offered(s)
           P == {k \in 0..n : f[k] \in V}
<1>1. n \in Nat /\ f[0] = s
  BY OfferedWalk
<1>2. 0 \in P
  BY <1>1
<1>3. ASSUME NEW k \in 1..n, k - 1 \in P PROVE k \in P
  BY <1>3, OfferedWalk
<1>4. n \in P
  <2> HIDE DEF P, n
  <2>1. \A k \in 0..n : k \in P
    BY <1>1, <1>2, <1>3, CountingTo
  <2> QED
    BY <1>1, <2>1
<1> QED
  BY <1>4 DEF Schedule

\* `schedule` leaves tables.
LEMMA ScheduleType ==
  ASSUME NEW s \in Tables
  PROVE  Schedule(s) \in Tables
  BY ScheduleIn, OfferType

\* An event leads to a status, and never to one that waits.
LEMMA TransitionType ==
  ASSUME NEW st \in Status \union {"absent"}, NEW e \in Event
  PROVE  Transition(st, e) \in Status \union {"absent"}
  BY DEF Transition, Target, Status, Event

\* x is s with the event in the log.
IsNoted(s, x, t, e) ==
  /\ x \in Tables
  /\ x.created = s.created /\ x.runner = s.runner /\ x.pin = s.pin
  /\ x.link = s.link /\ x.running = s.running /\ x.asked = s.asked
  /\ x.status = [s.status EXCEPT ![t] = Transition(s.status[t], e)]
  /\ x.result = [s.result EXCEPT ![t] =
                   s.result[t] \/ (e = "completed" /\ ~IsTerminal(s.status[t]))]
  /\ x.requeued = [s.requeued EXCEPT ![t] =
                     IF e = "requeued" THEN s.requeued[t] + 1 ELSE s.requeued[t]]
  /\ x.changed = s.changed \union {t}

\* That is what Noted gives.
LEMMA NotedStep ==
  ASSUME NEW s \in Tables, NEW t \in Task, NEW e \in Event
  PROVE  IsNoted(s, Noted(s, t, e), t, e)
<1> DEFINE st == Transition(s.status[t], e)
           done == s.result[t] \/ (e = "completed" /\ ~IsTerminal(s.status[t]))
           count == IF e = "requeued" THEN s.requeued[t] + 1 ELSE s.requeued[t]
           x == Noted(s, t, e)
<1>1. st \in Status \union {"absent"}
  BY TransitionType DEF Tables
<1>2. done \in BOOLEAN /\ count \in Nat
  BY DEF Tables
<1>3. x = [s EXCEPT !.status = [s.status EXCEPT ![t] = st],
                    !.result = [s.result EXCEPT ![t] = done],
                    !.requeued = [s.requeued EXCEPT ![t] = count],
                    !.changed = s.changed \union {t}]
  BY DEF Noted, Tables
<1> HIDE DEF x, st, done, count
<1>4. x \in Tables
  <2>1. /\ [s.status EXCEPT ![t] = st] \in [Task -> Status \union {"absent"}]
        /\ [s.result EXCEPT ![t] = done] \in [Task -> BOOLEAN]
        /\ [s.requeued EXCEPT ![t] = count] \in [Task -> Nat]
        /\ s.changed \union {t} \in SUBSET Task
    BY <1>1, <1>2 DEF Tables
  <2> QED
    BY <1>3, <2>1 DEF Tables
<1>5. /\ x.created = s.created /\ x.runner = s.runner /\ x.pin = s.pin
      /\ x.link = s.link /\ x.running = s.running /\ x.asked = s.asked
  BY <1>3 DEF Tables
<1>6. /\ x.status = [s.status EXCEPT ![t] = st]
      /\ x.result = [s.result EXCEPT ![t] = done]
      /\ x.requeued = [s.requeued EXCEPT ![t] = count]
      /\ x.changed = s.changed \union {t}
  BY <1>3 DEF Tables
<1> QED
  BY <1>4, <1>5, <1>6 DEF x, st, done, count, IsNoted

\* x is s with one slot free again.
IsFreed(s, x, t) ==
  /\ x \in Tables
  /\ x.created = s.created /\ x.status = s.status /\ x.runner = s.runner
  /\ x.pin = s.pin /\ x.result = s.result /\ x.requeued = s.requeued
  /\ x.link = s.link /\ x.asked = s.asked /\ x.changed = s.changed
  /\ s.runner[t] \in Runner
  /\ x.running = [s.running EXCEPT ![s.runner[t]] = @ \ {t}]

\* That is what Freed gives.
LEMMA FreedStep ==
  ASSUME NEW s \in Tables, NEW t \in Task, s.runner[t] # NoRunner
  PROVE  IsFreed(s, Freed(s, t), t)
<1>1. s.runner[t] \in Runner
  BY DEF Tables
<1>2. [s.running EXCEPT ![s.runner[t]] = @ \ {t}] \in [Runner -> SUBSET Task]
  BY <1>1 DEF Tables
<1>3. Freed(s, t) \in Tables
  BY <1>2 DEF Freed, Tables
<1>4. LET x == Freed(s, t)
      IN  /\ x.created = s.created /\ x.status = s.status /\ x.runner = s.runner
          /\ x.pin = s.pin /\ x.result = s.result /\ x.requeued = s.requeued
          /\ x.link = s.link /\ x.asked = s.asked /\ x.changed = s.changed
          /\ x.running = [s.running EXCEPT ![s.runner[t]] = @ \ {t}]
  BY DEF Freed, Tables
<1> QED
  BY <1>1, <1>3, <1>4 DEF IsFreed

\* x is s with the task queued again and taken off its runner.
IsRequeued(s, x, t, into) ==
  /\ x \in Tables
  /\ x.created = s.created /\ x.result = s.result /\ x.link = s.link
  /\ x.running = s.running /\ x.asked = s.asked
  /\ x.status = [s.status EXCEPT ![t] = "queued"]
  /\ x.runner = [s.runner EXCEPT ![t] = NoRunner]
  /\ x.pin = [s.pin EXCEPT ![t] = IF into # NoRunner THEN into ELSE s.pin[t]]
  /\ x.requeued = [s.requeued EXCEPT ![t] = s.requeued[t] + 1]
  /\ x.changed = s.changed \union {t}

\* That is what Requeue gives.
LEMMA RequeueStep ==
  ASSUME NEW s \in Tables, NEW t \in Task, NEW into \in Runner \union {NoRunner}
  PROVE  IsRequeued(s, Requeue(s, t, into), t, into)
<1> DEFINE y == Noted(s, t, "requeued")
           p == IF into # NoRunner THEN into ELSE s.pin[t]
           x == Requeue(s, t, into)
<1>1. /\ y \in Tables
      /\ y.created = s.created /\ y.runner = s.runner /\ y.pin = s.pin
      /\ y.link = s.link /\ y.running = s.running /\ y.asked = s.asked
      /\ y.status = [s.status EXCEPT ![t] = s.status[t]]
      /\ y.result = s.result
      /\ y.requeued = [s.requeued EXCEPT ![t] = s.requeued[t] + 1]
      /\ y.changed = s.changed \union {t}
  <2> "requeued" \in Event
    BY DEF Event
  <2>1. [s.result EXCEPT ![t] = s.result[t] \/ ("requeued" = "completed" /\ ~IsTerminal(s.status[t]))] = s.result
    BY DEF Tables
  <2>2. Transition(s.status[t], "requeued") = s.status[t]
    BY DEF Transition
  <2> QED
    BY NotedStep, <2>1, <2>2 DEF IsNoted
<1>2. x = [y EXCEPT !.pin = [y.pin EXCEPT ![t] = IF into # NoRunner THEN into ELSE y.pin[t]],
                    !.status = [y.status EXCEPT ![t] = "queued"],
                    !.runner = [y.runner EXCEPT ![t] = NoRunner]]
  BY <1>1 DEF Requeue, Tables
<1> HIDE DEF x, y
<1>3. x \in Tables
  <2>1. /\ [y.pin EXCEPT ![t] = IF into # NoRunner THEN into ELSE y.pin[t]] \in [Task -> Runner \union {NoRunner}]
        /\ [y.status EXCEPT ![t] = "queued"] \in [Task -> Status \union {"absent"}]
        /\ [y.runner EXCEPT ![t] = NoRunner] \in [Task -> Runner \union {NoRunner}]
    BY <1>1 DEF Tables, Status
  <2> QED
    BY <1>1, <1>2, <2>1 DEF Tables
<1>4. /\ x.created = y.created /\ x.result = y.result /\ x.link = y.link
      /\ x.running = y.running /\ x.asked = y.asked
      /\ x.status = [y.status EXCEPT ![t] = "queued"]
      /\ x.runner = [y.runner EXCEPT ![t] = NoRunner]
      /\ x.pin = [y.pin EXCEPT ![t] = IF into # NoRunner THEN into ELSE y.pin[t]]
      /\ x.requeued = y.requeued
      /\ x.changed = y.changed
  BY <1>1, <1>2 DEF Tables
<1>5. [y.status EXCEPT ![t] = "queued"] = [s.status EXCEPT ![t] = "queued"]
  BY <1>1 DEF Tables
<1> QED
  BY <1>1, <1>3, <1>4, <1>5 DEF x, IsRequeued

\* The maps that may stand for the failing of dependents.
Failers == [Tables \X Task -> Tables]

\* The parts of `apply_event` leave tables: recording the event,
LEMMA RecordedType ==
  ASSUME NEW s \in Tables, NEW t \in Task, NEW e \in Event
  PROVE  Recorded(s, t, e) \in Tables
<1>1. Noted(s, t, e) \in Tables /\ Noted(s, t, e).runner = s.runner
  <2> DEFINE x == Noted(s, t, e)
  <2>1. IsNoted(s, x, t, e)
    BY NotedStep
  <2> HIDE DEF x
  <2>2. x \in Tables /\ x.runner = s.runner
    BY <2>1 DEF IsNoted
  <2> QED
    BY <2>2 DEF x
<1>2. CASE FreesSlot(s, t, e)
  <2>1. Freed(Noted(s, t, e), t) \in Tables
    BY <1>1, <1>2, FreedStep DEF FreesSlot, IsFreed
  <2> QED
    BY <1>2, <2>1, ScheduleType DEF Recorded
<1>3. CASE ~FreesSlot(s, t, e)
  BY <1>1, <1>3 DEF Recorded
<1> QED
  BY <1>2, <1>3

\* a retry,
LEMMA RetryType ==
  ASSUME NEW s \in Tables, NEW t \in Task, NEW into \in Runner \union {NoRunner}
  PROVE  Retry(s, t, into) \in Tables
  BY RequeueStep, ScheduleType DEF Retry, IsRequeued

\* whose runner is one or none,
LEMMA CandidateType ==
  ASSUME NEW s \in Tables, NEW t \in Task, NEW exclude
  PROVE  CandidateExcluding(s, t, exclude) \in Runner \union {NoRunner}
  BY CandidateFits DEF Fit

\* what the policy does after a bad end,
LEMMA MaybeReassignType ==
  ASSUME NEW s \in Tables, NEW t \in Task, NEW ended
  PROVE  MaybeReassign(s, t, ended) \in Tables
  BY CandidateType, RetryType DEF MaybeReassign

\* and the whole, for any way of failing dependents.
LEMMA ApplyEventWithType ==
  ASSUME NEW s \in Tables, NEW t \in Task, NEW e \in Event, NEW fails \in Failers
  PROVE  ApplyEventWith(s, t, e, fails) \in Tables
<1> DEFINE next == Recorded(s, t, e)
           now == Transition(s.status[t], e)
<1>1. next \in Tables
  BY RecordedType
<1>2. fails[<<next, t>>] \in Tables
  BY <1>1 DEF Failers
<1>3. Schedule(next) \in Tables
  BY <1>1, ScheduleType
<1>4. MaybeReassign(fails[<<next, t>>], t, now) \in Tables
  BY <1>2, MaybeReassignType
<1>5. ApplyEventWith(s, t, e, fails) \in
        {next, MaybeReassign(fails[<<next, t>>], t, now), fails[<<next, t>>], Schedule(next)}
  BY DEF ApplyEventWith
<1> QED
  BY <1>1, <1>2, <1>3, <1>4, <1>5

\* The tasks that fail with d.
Blocked(s, d) == {t \in Task : s.status[t] = "queued" /\ d \in Deps[t]}

\* A round of `fail_dependents`.
FailNext(s, k, blocked, fails) ==
  IF k \in blocked THEN ApplyEventWith(s, k, "failed", fails) ELSE s

\* The tasks are the numbers up to Last.
LEMMA LastType == Last \in Nat /\ Task = 1..Last
  BY TasksAreNumbers, FS_CardinalityType DEF Last

\* The rounds of `fail_dependents`.
LEMMA FailingWalk ==
  ASSUME NEW s \in Tables, NEW d \in Task, NEW fails \in Failers
  PROVE  /\ Failing(s, d, fails)[0] = s
         /\ \A k \in Task : Failing(s, d, fails)[k]
                              = FailNext(Failing(s, d, fails)[k - 1], k, Blocked(s, d), fails)
<1> DEFINE B == Blocked(s, d)
           H == [k \in 1..Last |-> [x \in Tables |-> FailNext(x, k, B, fails)]]
<1>0. Last \in Nat /\ Task = 1..Last
  BY LastType
<1>1. \A x \in Tables, k \in Task : FailNext(x, k, B, fails) \in Tables
  BY ApplyEventWithType DEF FailNext, Event
<1>2. H \in [1..Last -> [Tables -> Tables]]
  BY <1>0, <1>1
<1>3. \A k \in 1..Last, x \in Tables : H[k][x] = FailNext(x, k, B, fails)
  OBVIOUS
<1> HIDE DEF B, H
<1>4. PICK f \in [0..Last -> Tables] : IsWalk(f, Last, s, H)
  BY <1>0, <1>2, Walks
<1>5. f = [k \in 0..Last |-> IF k = 0 THEN s ELSE FailNext(f[k - 1], k, B, fails)]
  <2>1. \A k \in 0..Last : k # 0 => k \in 1..Last /\ k - 1 \in 0..Last
    BY <1>0
  <2>2. \A k \in 0..Last : k # 0 => H[k][f[k - 1]] = FailNext(f[k - 1], k, B, fails)
    BY <2>1, <1>3
  <2> QED
    BY <1>4, <2>2 DEF IsWalk
<1>6. Failing(s, d, fails) =
        [k \in 0..Last |-> IF k = 0 THEN s ELSE FailNext(Failing(s, d, fails)[k - 1], k, B, fails)]
  <2> DEFINE g == CHOOSE h : h = [k \in 0..Last |-> IF k = 0 THEN s ELSE FailNext(h[k - 1], k, B, fails)]
  <2>1. Failing(s, d, fails) = g
    BY DEF Failing, FailNext, B, Blocked
  <2>2. g = [k \in 0..Last |-> IF k = 0 THEN s ELSE FailNext(g[k - 1], k, B, fails)]
    BY <1>5
  <2> QED
    BY <2>1, <2>2
<1>7. \A k \in 0..Last : Failing(s, d, fails)[k]
        = IF k = 0 THEN s ELSE FailNext(Failing(s, d, fails)[k - 1], k, B, fails)
  BY <1>6
<1> QED
  BY <1>0, <1>7 DEF B

\* What every round keeps, `fail_dependents` keeps.
LEMMA FailDependentsIn ==
  ASSUME NEW s \in Tables, NEW d \in Task, NEW fails \in Failers,
         NEW V, s \in V,
         \A x \in V, k \in Blocked(s, d) : ApplyEventWith(x, k, "failed", fails) \in V
  PROVE  FailDependents(s, d, fails) \in V
<1> DEFINE f == Failing(s, d, fails)
           P == {k \in 0..Last : f[k] \in V}
<1>0. Last \in Nat /\ Task = 1..Last /\ f[0] = s
  BY LastType, FailingWalk
<1>1. 0 \in P
  BY <1>0
<1>2. ASSUME NEW k \in 1..Last, k - 1 \in P PROVE k \in P
  <2>1. f[k] = FailNext(f[k - 1], k, Blocked(s, d), fails)
    BY <1>0, FailingWalk
  <2> QED
    BY <1>2, <2>1 DEF FailNext
<1>3. Last \in P
  <2> HIDE DEF P
  <2>1. \A k \in 0..Last : k \in P
    BY <1>0, <1>1, <1>2, CountingTo
  <2> QED
    BY <1>0, <2>1
<1> QED
  BY <1>3 DEF FailDependents

\* `fail_dependents` leaves tables.
LEMMA FailDependentsType ==
  ASSUME NEW s \in Tables, NEW d \in Task, NEW fails \in Failers
  PROVE  FailDependents(s, d, fails) \in Tables
<1>1. \A x \in Tables, k \in Blocked(s, d) : ApplyEventWith(x, k, "failed", fails) \in Tables
  BY ApplyEventWithType DEF Event, Blocked
<1> QED
  BY <1>1, FailDependentsIn

\* What Cascade[n] is made of.
CascadeStep(n, deeper) ==
  [x \in Tables \X Task |-> IF n = 0 THEN x[1] ELSE FailDependents(x[1], x[2], deeper)]

\* One level deeper is a way of failing dependents too.
LEMMA CascadeStepType ==
  ASSUME NEW n \in Nat, NEW deeper \in Failers
  PROVE  CascadeStep(n, deeper) \in Failers
  BY FailDependentsType DEF CascadeStep, Failers

\* Each level of a cascade fails dependents by the level below; level 0 does nothing.
LEMMA CascadeLevels ==
  /\ Cascade[0] \in Failers
  /\ \A s \in Tables, d \in Task : Cascade[0][<<s, d>>] = s
  /\ \A n \in Nat : /\ Cascade[n + 1] \in Failers
                    /\ \A s \in Tables, d \in Task :
                         Cascade[n + 1][<<s, d>>] = FailDependents(s, d, Cascade[n])
<1> DEFINE v == [x \in Tables \X Task |-> x[1]]
           G == [n \in Nat |-> [C \in Failers |-> CascadeStep(n + 1, C)]]
<1>1. v \in Failers
  BY DEF Failers
<1>2. G \in [Nat -> [Failers -> Failers]]
  BY CascadeStepType
<1>3. \A n \in Nat, C \in Failers : G[n][C] = CascadeStep(n + 1, C)
  OBVIOUS
<1> HIDE DEF G
<1>4. PICK f : Iterates(f, Failers, v, G)
  BY <1>1, <1>2, IteratesExist
<1>5. f = [n \in Nat |-> CascadeStep(n, f[n - 1])]
  <2>1. f \in [Nat -> Failers]
    BY <1>4 DEF Iterates
  <2>2. f[0] = CascadeStep(0, f[0 - 1])
    BY <1>4 DEF Iterates, CascadeStep
  <2>3. ASSUME NEW n \in Nat, n # 0 PROVE f[n] = CascadeStep(n, f[n - 1])
    <3>1. n - 1 \in Nat /\ (n - 1) + 1 = n
      BY <2>3
    <3>2. f[(n - 1) + 1] = G[n - 1][f[n - 1]]
      BY <1>4, <3>1 DEF Iterates
    <3> QED
      BY <2>1, <3>1, <3>2, <1>3
  <2> HIDE DEF v
  <2> QED
    BY <2>1, <2>2, <2>3
<1>6. Cascade = [n \in Nat |-> CascadeStep(n, Cascade[n - 1])]
  <2> DEFINE g == CHOOSE h : h = [n \in Nat |-> CascadeStep(n, h[n - 1])]
  <2>1. Cascade = g
    BY DEF Cascade, CascadeStep
  <2>2. g = [n \in Nat |-> CascadeStep(n, g[n - 1])]
    BY <1>5
  <2> QED
    BY <2>1, <2>2
<1>7. \A n \in Nat : Cascade[n] = CascadeStep(n, Cascade[n - 1])
  BY <1>6
<1>8. Cascade[0] = v
  BY <1>7 DEF CascadeStep
<1>9. \A n \in Nat : Cascade[n + 1] = CascadeStep(n + 1, Cascade[n])
  BY <1>7
<1>10. \A n \in Nat : Cascade[n] \in Failers
  <2> DEFINE P == {n \in Nat : Cascade[n] \in Failers}
  <2>1. 0 \in P
    BY <1>1, <1>8
  <2>2. ASSUME NEW n \in P PROVE n + 1 \in P
    BY <1>9, CascadeStepType
  <2>3. P \in SUBSET Nat
    OBVIOUS
  <2> HIDE DEF P
  <2>4. P = Nat
    BY <2>1, <2>2, <2>3, Counting
  <2> QED
    BY <2>4 DEF P
<1>11. \A s \in Tables, d \in Task : Cascade[0][<<s, d>>] = s
  BY <1>8
<1>12. ASSUME NEW n \in Nat, NEW s \in Tables, NEW d \in Task
       PROVE  Cascade[n + 1][<<s, d>>] = FailDependents(s, d, Cascade[n])
  <2> DEFINE m == n + 1
             below == Cascade[n]
             at == Cascade[m]
  <2>1. m # 0 /\ <<s, d>> \in Tables \X Task
    OBVIOUS
  <2>2. at = CascadeStep(m, below)
    BY <1>9
  <2> HIDE DEF m, below, at
  <2>3. CascadeStep(m, below)[<<s, d>>] = FailDependents(s, d, below)
    BY <2>1 DEF CascadeStep
  <2>4. at[<<s, d>>] = FailDependents(s, d, below)
    BY <2>2, <2>3
  <2> QED
    BY <2>4 DEF m, below, at
<1>13. Cascade[0] \in Failers /\ \A n \in Nat : Cascade[n + 1] \in Failers
  BY <1>10
<1> QED
  BY <1>11, <1>12, <1>13, Zenon

-----------------------------------------------------------------------------
\* A relation between tables that holds from before to after any cascade, once it
\* holds of the parts a cascade is made of.  Statuses only go from queued to failed
\* in a cascade (a retry puts back what the cascade has failed).
Carries(R) ==
  /\ R \subseteq Tables \X Tables
  /\ \A s \in Tables : <<s, s>> \in R
  /\ \A s, x, y \in Tables : <<s, x>> \in R /\ <<x, y>> \in R => <<s, y>> \in R
  /\ \A s, x \in Tables : <<s, x>> \in R => \A t \in Task :
       x.status[t] = s.status[t] \/ (s.status[t] = "queued" /\ x.status[t] = "failed")
  /\ \A s \in Tables : <<s, Schedule(s)>> \in R
  /\ \A s \in Tables, t \in Task :
       s.status[t] \in {"queued", "failed"} => <<s, Noted(s, t, "failed")>> \in R
  /\ \A s \in Tables, t \in Task :
       s.status[t] # "queued" /\ s.runner[t] # NoRunner => <<s, Schedule(Freed(s, t))>> \in R
  /\ \A s, y \in Tables, t \in Task, into \in Runner \union {NoRunner} :
       /\ <<s, y>> \in R
       /\ s.status[t] = "queued" /\ y.status[t] = "failed"
       /\ RetrySpecOk(y, t, into)
       => <<s, Retry(y, t, into)>> \in R

\* What noting an event changes, and whom.
LEMMA NotedFacts ==
  ASSUME NEW s \in Tables, NEW t \in Task, NEW e \in Event,
         NEW z, z = Noted(s, t, e)
  PROVE  IsNoted(s, z, t, e) /\ z \in Tables /\ z.runner = s.runner
         /\ z.status[t] = Transition(s.status[t], e)
         /\ \A u \in Task \ {t} : z.status[u] = s.status[u]
<1>1. IsNoted(s, z, t, e)
  BY NotedStep
<1> QED
  BY <1>1 DEF IsNoted, Tables

\* Such a relation holds over the recording of an event,
LEMMA RecordedCarries ==
  ASSUME NEW R, Carries(R), NEW s \in Tables, NEW t \in Task, NEW e \in Event
  PROVE  <<Noted(s, t, e), Recorded(s, t, e)>> \in R
<1> DEFINE z == Noted(s, t, e)
<1>1. z \in Tables /\ z.runner = s.runner /\ z.status[t] = Transition(s.status[t], e)
  BY NotedFacts
<1>2. CASE FreesSlot(s, t, e)
  <2>1. z.status[t] # "queued"
    BY <1>1, <1>2 DEF FreesSlot, Finished, Transition, Target, IsTerminal, Terminal
  <2>2. z.runner[t] # NoRunner
    BY <1>1, <1>2 DEF FreesSlot
  <2>3. Recorded(s, t, e) = Schedule(Freed(z, t))
    BY <1>2 DEF Recorded
  <2> HIDE DEF z
  <2> QED
    BY <1>1, <2>1, <2>2, <2>3 DEF Carries, z
<1>3. CASE ~FreesSlot(s, t, e)
  <2>1. Recorded(s, t, e) = z
    BY <1>3 DEF Recorded
  <2> HIDE DEF z
  <2> QED
    BY <1>1, <2>1 DEF Carries, z
<1> QED
  BY <1>2, <1>3

\* What follows the noting of an event: a cascade, and after it perhaps a retry.
Outcome(R, s, t, e, z, a) ==
  \/ <<z, a>> \in R
  \/ /\ ~IsTerminal(s.status[t])
     /\ Transition(s.status[t], e) \in {"failed", "timed_out", "runner_lost"}
     /\ \E y \in Tables, into \in Runner \union {NoRunner} :
          <<z, y>> \in R /\ RetrySpecOk(y, t, into) /\ a = Retry(y, t, into)

\* and over the rest of it, but for the retry at its end;
LEMMA ApplyShape ==
  ASSUME NEW R, Carries(R), NEW s \in Tables, NEW t \in Task, NEW e \in Event,
         NEW fails \in Failers,
         \A x \in Tables, d \in Task : <<x, fails[<<x, d>>]>> \in R,
         NEW z, z = Noted(s, t, e), NEW a, a = ApplyEventWith(s, t, e, fails)
  PROVE  Outcome(R, s, t, e, z, a)
<1> DEFINE next == Recorded(s, t, e)
           now == Transition(s.status[t], e)
           y == fails[<<next, t>>]
<1>1. z \in Tables /\ next \in Tables /\ <<z, next>> \in R
  BY NotedFacts, RecordedType, RecordedCarries
<1>2. y \in Tables /\ <<z, y>> \in R
  <2>1. y \in Tables /\ <<next, y>> \in R
    BY <1>1 DEF Failers
  <2> HIDE DEF next, y
  <2> QED
    BY <1>1, <2>1 DEF Carries
<1>3. <<z, Schedule(next)>> \in R
  <2>1. Schedule(next) \in Tables
    BY <1>1, ScheduleType
  <2> HIDE DEF next
  <2> QED
    BY <1>1, <2>1 DEF Carries
<1>4. CASE IsTerminal(s.status[t])
  <2>1. a = next
    BY <1>4 DEF ApplyEventWith
  <2> QED
    BY <1>1, <2>1 DEF Outcome
<1>5. CASE ~IsTerminal(s.status[t]) /\ now \in {"failed", "timed_out", "runner_lost"}
  <2>1. a = MaybeReassign(y, t, now)
    BY <1>5 DEF ApplyEventWith
  <2> DEFINE into == CandidateExcluding(y, t, y.runner[t])
  <2>2. a = y \/ (RetrySpecOk(y, t, into) /\ a = Retry(y, t, into))
    BY <2>1 DEF MaybeReassign
  <2>3. into \in Runner \union {NoRunner}
    BY <1>2, CandidateType
  <2> HIDE DEF into, y, next
  <2> QED
    BY <1>2, <1>5, <2>2, <2>3 DEF Outcome
<1>6. CASE ~IsTerminal(s.status[t]) /\ now \notin {"failed", "timed_out", "runner_lost"}
  <2>1. a \in {next, y, Schedule(next)}
    BY <1>6 DEF ApplyEventWith
  <2> QED
    BY <1>1, <1>2, <1>3, <2>1 DEF Outcome
<1> QED
  BY <1>4, <1>5, <1>6

\* A dependent's failure, with its own cascade and perhaps its retry.
LEMMA FailureCarries ==
  ASSUME NEW R, Carries(R), NEW fails \in Failers,
         \A x \in Tables, d \in Task : <<x, fails[<<x, d>>]>> \in R,
         NEW s \in Tables, NEW t \in Task, s.status[t] \in {"queued", "failed"}
  PROVE  <<s, ApplyEventWith(s, t, "failed", fails)>> \in R
<1> DEFINE z == Noted(s, t, "failed")
           a == ApplyEventWith(s, t, "failed", fails)
<1>0. "failed" \in Event
  BY DEF Event
<1>1. z \in Tables /\ a \in Tables
  BY <1>0, NotedFacts, ApplyEventWithType
<1>2. <<s, z>> \in R
  BY DEF Carries
<1>3. Outcome(R, s, t, "failed", z, a)
  BY <1>0, ApplyShape
<1> HIDE DEF z, a
<1>4. CASE <<z, a>> \in R
  BY <1>1, <1>2, <1>4 DEF Carries, a
<1>5. CASE /\ ~IsTerminal(s.status[t])
           /\ \E y \in Tables, into \in Runner \union {NoRunner} :
                <<z, y>> \in R /\ RetrySpecOk(y, t, into) /\ a = Retry(y, t, into)
  <2>1. PICK y \in Tables, into \in Runner \union {NoRunner} :
               <<z, y>> \in R /\ RetrySpecOk(y, t, into) /\ a = Retry(y, t, into)
    BY <1>5
  <2>2. s.status[t] = "queued"
    BY <1>5 DEF IsTerminal, Terminal
  <2>3. <<s, y>> \in R
    BY <1>1, <1>2, <2>1 DEF Carries
  <2>4. y.status[t] = "failed"
    BY <2>1, <2>2, <2>3 DEF Carries, RetrySpecOk, Retryable
  <2> QED
    BY <2>1, <2>2, <2>3, <2>4 DEF Carries, a
<1> QED
  BY <1>3, <1>4, <1>5 DEF a, Outcome

\* so over that of all dependents,
LEMMA FailDependentsCarries ==
  ASSUME NEW R, Carries(R), NEW fails \in Failers,
         \A x \in Tables, d \in Task : <<x, fails[<<x, d>>]>> \in R,
         NEW s \in Tables, NEW d \in Task
  PROVE  <<s, FailDependents(s, d, fails)>> \in R
<1> DEFINE V == {x \in Tables : <<s, x>> \in R}
<1>1. s \in V
  BY DEF Carries
<1>2. ASSUME NEW x \in V, NEW k \in Blocked(s, d)
      PROVE  ApplyEventWith(x, k, "failed", fails) \in V
  <2> DEFINE a == ApplyEventWith(x, k, "failed", fails)
  <2>1. k \in Task /\ s.status[k] = "queued"
    BY DEF Blocked
  <2>2. x.status[k] \in {"queued", "failed"}
    BY <2>1 DEF Carries
  <2>3. <<x, a>> \in R
    BY <2>1, <2>2, FailureCarries
  <2>4. a \in Tables
    BY <2>1, ApplyEventWithType DEF Event
  <2> HIDE DEF a
  <2>5. a \in V
    BY <2>3, <2>4 DEF Carries
  <2> QED
    BY <2>5 DEF a
<1> HIDE DEF V
<1>3. FailDependents(s, d, fails) \in V
  BY <1>1, <1>2, FailDependentsIn
<1> QED
  BY <1>3 DEF V

\* and over a cascade of any depth.
LEMMA CascadeCarries ==
  ASSUME NEW R, Carries(R)
  PROVE  \A n \in Nat : \A s \in Tables, d \in Task : <<s, Cascade[n][<<s, d>>]>> \in R
<1> DEFINE P == {n \in Nat : \A s \in Tables, d \in Task : <<s, Cascade[n][<<s, d>>]>> \in R}
<1>1. 0 \in P
  BY CascadeLevels DEF Carries
<1>2. ASSUME NEW n \in P PROVE n + 1 \in P
  <2>1. Cascade[n] \in Failers
    <3>1. n = 0 \/ (n - 1 \in Nat /\ n = (n - 1) + 1)
      OBVIOUS
    <3> QED
      BY <3>1, CascadeLevels
  <2>2. \A s \in Tables, d \in Task : <<s, Cascade[n][<<s, d>>]>> \in R
    OBVIOUS
  <2>3. ASSUME NEW s \in Tables, NEW d \in Task
        PROVE  <<s, Cascade[n + 1][<<s, d>>]>> \in R
    <3>1. <<s, FailDependents(s, d, Cascade[n])>> \in R
      BY <2>1, <2>2, FailDependentsCarries
    <3> QED
      BY <3>1, CascadeLevels
  <2> QED
    BY <2>3
<1>3. P \in SUBSET Nat
  OBVIOUS
<1> HIDE DEF P
<1>4. P = Nat
  BY <1>1, <1>2, <1>3, Counting
<1> QED
  BY <1>4 DEF P

-----------------------------------------------------------------------------
\* The same, step by step.

\* What is asked of each assignment, noted failure, freed slot and retry.
Steady(R) ==
  /\ R \subseteq Tables \X Tables
  /\ \A s \in Tables : <<s, s>> \in R
  /\ \A s, x, y \in Tables : <<s, x>> \in R /\ <<x, y>> \in R => <<s, y>> \in R
  /\ \A s, x \in Tables : <<s, x>> \in R => \A t \in Task :
       x.status[t] = s.status[t] \/ (s.status[t] = "queued" /\ x.status[t] = "failed")
  /\ \A s, x \in Tables, t \in Task, r \in Runner :
       IsReady(s, t) /\ IsAssigned(s, x, t, r) => <<s, x>> \in R
  /\ \A s, x \in Tables, t \in Task :
       s.status[t] \in {"queued", "failed"} /\ IsNoted(s, x, t, "failed") => <<s, x>> \in R
  /\ \A s, x \in Tables, t \in Task :
       s.status[t] # "queued" /\ IsFreed(s, x, t) => <<s, x>> \in R
  /\ \A s, y, x \in Tables, t \in Task, into \in Runner \union {NoRunner} :
       /\ <<s, y>> \in R
       /\ s.status[t] = "queued" /\ y.status[t] = "failed"
       /\ IsRequeued(y, x, t, into)
       => <<s, x>> \in R

\* An offer is an assignment or nothing.
LEMMA OfferFacts ==
  ASSUME NEW s \in Tables, NEW t \in Task, NEW x, x = Offer(s, t)
  PROVE  \/ x = s
         \/ IsReady(s, t) /\ x \in Tables /\ \E r \in Runner : IsAssigned(s, x, t, r)
<1>1. CASE IsReady(s, t) /\ AssignNext(s, t) # s
  <2> DEFINE r == Candidate(s, t)
  <2>1. x = AssignNext(s, t)
    BY <1>1 DEF Offer
  <2>2. IsAssigned(s, x, t, r)
    BY <1>1, <2>1, AssignNextStep
  <2>3. r \in Runner
    BY <2>2 DEF IsAssigned, Fit
  <2>4. x \in Tables
    BY <2>2 DEF IsAssigned
  <2> HIDE DEF r
  <2> QED
    BY <1>1, <2>2, <2>3, <2>4
<1>2. CASE ~IsReady(s, t) \/ AssignNext(s, t) = s
  BY <1>2 DEF Offer
<1> QED
  BY <1>1, <1>2

\* `schedule` is assignments one after the other.
LEMMA SteadySchedule ==
  ASSUME NEW R, Steady(R), NEW s \in Tables
  PROVE  <<s, Schedule(s)>> \in R
<1> DEFINE V == {x \in Tables : <<s, x>> \in R}
<1>1. s \in V
  BY DEF Steady
<1>2. ASSUME NEW x \in V, NEW t \in Task PROVE Offer(x, t) \in V
  <2> DEFINE y == Offer(x, t)
  <2>1. \/ y = x
        \/ IsReady(x, t) /\ y \in Tables /\ \E r \in Runner : IsAssigned(x, y, t, r)
    BY OfferFacts
  <2> HIDE DEF y
  <2>2. <<x, y>> \in R /\ y \in Tables
    BY <2>1 DEF Steady
  <2>3. y \in V
    BY <2>2 DEF Steady
  <2> QED
    BY <2>3 DEF y
<1> HIDE DEF V
<1>3. Schedule(s) \in V
  BY <1>1, <1>2, ScheduleIn
<1> QED
  BY <1>3 DEF V

\* What holds of the single steps is carried by a cascade.
LEMMA SteadyCarries ==
  ASSUME NEW R, Steady(R)
  PROVE  Carries(R)
<1>1. \A s \in Tables : Schedule(s) \in Tables /\ <<s, Schedule(s)>> \in R
  BY SteadySchedule, ScheduleType
<1>2. ASSUME NEW s \in Tables, NEW t \in Task, s.status[t] \in {"queued", "failed"}
      PROVE  <<s, Noted(s, t, "failed")>> \in R
  <2> DEFINE x == Noted(s, t, "failed")
  <2>1. IsNoted(s, x, t, "failed") /\ x \in Tables
    BY NotedFacts DEF Event
  <2> HIDE DEF x
  <2>2. <<s, x>> \in R
    BY <1>2, <2>1 DEF Steady
  <2> QED
    BY <2>2 DEF x
<1>3. ASSUME NEW s \in Tables, NEW t \in Task, s.status[t] # "queued", s.runner[t] # NoRunner
      PROVE  <<s, Schedule(Freed(s, t))>> \in R
  <2> DEFINE x == Freed(s, t)
  <2>1. IsFreed(s, x, t)
    BY <1>3, FreedStep
  <2> HIDE DEF x
  <2>2. x \in Tables
    BY <2>1 DEF IsFreed
  <2>3. <<s, x>> \in R
    BY <1>3, <2>1, <2>2 DEF Steady
  <2>4. <<s, Schedule(x)>> \in R
    BY <1>1, <2>2, <2>3 DEF Steady
  <2> QED
    BY <2>4 DEF x
<1>4. ASSUME NEW s \in Tables, NEW y \in Tables, NEW t \in Task,
             NEW into \in Runner \union {NoRunner},
             <<s, y>> \in R, s.status[t] = "queued", y.status[t] = "failed"
      PROVE  <<s, Retry(y, t, into)>> \in R
  <2> DEFINE x == Requeue(y, t, into)
  <2>1. IsRequeued(y, x, t, into)
    BY RequeueStep
  <2> HIDE DEF x
  <2>2. x \in Tables
    BY <2>1 DEF IsRequeued
  <2>3. <<s, x>> \in R
    BY <1>4, <2>1, <2>2 DEF Steady
  <2>4. <<s, Schedule(x)>> \in R
    BY <1>1, <2>2, <2>3 DEF Steady
  <2> QED
    BY <2>4 DEF x, Retry
<1>5. /\ R \subseteq Tables \X Tables
      /\ \A s \in Tables : <<s, s>> \in R
      /\ \A s, x, y \in Tables : <<s, x>> \in R /\ <<x, y>> \in R => <<s, y>> \in R
      /\ \A s, x \in Tables : <<s, x>> \in R => \A t \in Task :
           x.status[t] = s.status[t] \/ (s.status[t] = "queued" /\ x.status[t] = "failed")
  BY DEF Steady
<1> QED
  BY <1>1, <1>2, <1>3, <1>4, <1>5 DEF Carries

-----------------------------------------------------------------------------
\* What holds of the tables from before to after a cascade.

\* Only queued tasks move, and only to failed.
Calm(s, x) ==
  \A t \in Task :
    x.status[t] = s.status[t] \/ (s.status[t] = "queued" /\ x.status[t] = "failed")

\* What only grows, and what is not touched; whatever moved is among the changed.
Grows(s, x) ==
  /\ x.created = s.created /\ x.link = s.link /\ x.result = s.result
  /\ s.asked \subseteq x.asked
  /\ s.changed \subseteq x.changed
  /\ \A t \in Task : x.requeued[t] >= s.requeued[t]
  /\ \A t \in Task : x.status[t] # s.status[t] => t \in x.changed

\* A forgotten runner has nothing; whatever a runner has or was asked for exists and
\* is listed; a task is on a runner its spec allows and that was told to run it.
Sound(s) ==
  /\ \A r \in Runner : s.link[r] = "absent" => s.running[r] = {}
  /\ \A r \in Runner, t \in Task : t \in s.running[r] => s.status[t] # "absent"
  /\ \A w \in {"run", "push", "discard"}, r \in Runner, t \in Task :
       <<w, r, t>> \in s.asked => s.status[t] # "absent"
  /\ \A t \in Task : s.runner[t] # NoRunner =>
       s.pin[t] \in {NoRunner, s.runner[t]} /\ <<"run", s.runner[t], t>> \in s.asked
  /\ \A t \in Task : s.status[t] # "absent" =>
       \E k \in 1..Len(s.created) : s.created[k] = t

\* The assigned tasks that the loss of their runner would not lose.
Unheld(s) ==
  {t \in Task : /\ s.status[t] = "queued" /\ s.runner[t] # NoRunner
                /\ s.link[s.runner[t]] = "absent" \/ t \notin s.running[s.runner[t]]}

\* A task is handed out only on dependencies that were met from the start.
HandsOut(s, x) ==
  \A r \in Runner, t \in Task :
    <<"run", r, t>> \in x.asked /\ <<"run", r, t>> \notin s.asked => DepsMetIn(t, s.status)

\* Slots are filled up to their number, whoever is newly assigned.
Fits(s, x) ==
  \A r \in Runner :
    /\ x.running[r] \subseteq s.running[r] \/ Cardinality(x.running[r]) <= Slots[r]
    /\ \A t \in Task :
         x.runner[t] = r /\ s.runner[t] # r => Cardinality(x.running[r]) <= Slots[r]

\* All of these together.
Follows(s, x) ==
  /\ Calm(s, x)
  /\ Grows(s, x)
  /\ Sound(s) => Sound(x)
  /\ Unheld(x) \subseteq Unheld(s)
  /\ HandsOut(s, x)
  /\ Fits(s, x)

\* Follows is such a relation: it holds of doing nothing,
LEMMA FollowsReflexive ==
  ASSUME NEW s \in Tables
  PROVE  Follows(s, s)
  BY DEF Follows, Calm, Grows, HandsOut, Fits, Tables

\* (slots that were filled up to their number stay so)
LEMMA FitsTransitive ==
  ASSUME NEW s \in Tables, NEW x \in Tables, NEW y \in Tables, Fits(s, x), Fits(x, y)
  PROVE  Fits(s, y)
<1> SUFFICES ASSUME NEW r \in Runner
             PROVE  /\ y.running[r] \subseteq s.running[r] \/ Cardinality(y.running[r]) <= Slots[r]
                    /\ \A t \in Task : y.runner[t] = r /\ s.runner[t] # r
                                         => Cardinality(y.running[r]) <= Slots[r]
  BY DEF Fits
<1>1. Cardinality(x.running[r]) \in Nat /\ Cardinality(y.running[r]) \in Nat
      /\ IsFiniteSet(x.running[r]) /\ Slots[r] \in Nat
  BY FreeSlotsType, ParametersAreTyped
<1>2. y.running[r] \subseteq x.running[r] => Cardinality(y.running[r]) <= Cardinality(x.running[r])
  BY <1>1, FS_Subset
<1> QED
  BY <1>1, <1>2 DEF Fits

\* of one step after another,
LEMMA FollowsTransitive ==
  ASSUME NEW s \in Tables, NEW x \in Tables, NEW y \in Tables, Follows(s, x), Follows(x, y)
  PROVE  Follows(s, y)
<1>1. Calm(s, y)
  BY DEF Follows, Calm
<1>2. Grows(s, y)
  <2>1. ASSUME NEW t \in Task PROVE y.requeued[t] >= s.requeued[t]
    <3>1. s.requeued[t] \in Nat /\ x.requeued[t] \in Nat /\ y.requeued[t] \in Nat
      BY DEF Tables
    <3>2. x.requeued[t] >= s.requeued[t] /\ y.requeued[t] >= x.requeued[t]
      BY DEF Follows, Grows
    <3> QED
      BY <3>1, <3>2
  <2> QED
    BY <2>1 DEF Follows, Grows
<1>3. HandsOut(s, y)
  <2> SUFFICES ASSUME NEW r \in Runner, NEW t \in Task,
                      <<"run", r, t>> \in y.asked, <<"run", r, t>> \notin s.asked
               PROVE  DepsMetIn(t, s.status)
    BY DEF HandsOut
  <2>1. CASE <<"run", r, t>> \in x.asked
    BY <2>1 DEF Follows, HandsOut
  <2>2. CASE <<"run", r, t>> \notin x.asked
    <3>1. DepsMetIn(t, x.status)
      BY <2>2 DEF Follows, HandsOut
    <3>2. ASSUME NEW d \in Deps[t] PROVE Met(Needs[t], s.status[d])
      <4>1. d \in Task /\ Needs[t] \in Condition
        BY SpecsAreTyped
      <4>2. Met(Needs[t], x.status[d])
        BY <3>1 DEF DepsMetIn
      <4> QED
        BY <4>1, <4>2 DEF Follows, Calm, Met, Condition
    <3> QED
      BY <3>2 DEF DepsMetIn
  <2> QED
    BY <2>1, <2>2
<1>4. Fits(s, y)
  BY FitsTransitive DEF Follows
<1> QED
  BY <1>1, <1>2, <1>3, <1>4 DEF Follows

\* The four steps of a cascade.

\* of an assignment,
LEMMA FollowsAssigned ==
  ASSUME NEW s \in Tables, NEW x \in Tables, NEW t \in Task, NEW r \in Runner,
         IsReady(s, t), IsAssigned(s, x, t, r)
  PROVE  Follows(s, x)
<1>1. /\ s.status[t] = "queued" /\ s.runner[t] = NoRunner /\ DepsMetIn(t, s.status)
      /\ s.link[r] = "connected" /\ s.pin[t] \in {NoRunner, r} /\ FreeSlots(s, r) > 0
  BY DEF IsReady, IsAssigned, Fit, CanRun, IsConnected
<1>2. Calm(s, x)
  BY DEF IsAssigned, Calm
<1>3. Grows(s, x)
  BY DEF IsAssigned, Grows, Tables
<1>4. ASSUME Sound(s) PROVE Sound(x)
  <2>1. \A q \in Runner : x.link[q] = "absent" => x.running[q] = {}
    BY <1>1, <1>4 DEF IsAssigned, Sound, Tables
  <2>2. \A q \in Runner, u \in Task : u \in x.running[q] => x.status[u] # "absent"
    BY <1>1, <1>4 DEF IsAssigned, Sound, Tables
  <2>3. \A w \in {"run", "push", "discard"}, q \in Runner, u \in Task :
          <<w, q, u>> \in x.asked => x.status[u] # "absent"
    BY <1>1, <1>4 DEF IsAssigned, Sound
  <2>4. \A u \in Task : x.runner[u] # NoRunner =>
          x.pin[u] \in {NoRunner, x.runner[u]} /\ <<"run", x.runner[u], u>> \in x.asked
    BY <1>1, <1>4 DEF IsAssigned, Sound, Tables
  <2>5. \A u \in Task : x.status[u] # "absent" => \E k \in 1..Len(x.created) : x.created[k] = u
    BY <1>4 DEF IsAssigned, Sound
  <2> QED
    BY <2>1, <2>2, <2>3, <2>4, <2>5 DEF Sound
<1>5. Unheld(x) \subseteq Unheld(s)
  <2> SUFFICES ASSUME NEW u \in Unheld(x) PROVE u \in Unheld(s)
    OBVIOUS
  <2>1. u \in Task /\ x.status = s.status /\ x.link = s.link
    BY DEF Unheld, IsAssigned
  <2>2. u # t
    BY <1>1, <2>1 DEF Unheld, IsAssigned, Tables
  <2>3. x.runner[u] = s.runner[u]
    BY <2>1, <2>2 DEF IsAssigned, Tables
  <2>4. s.runner[u] # NoRunner /\ s.status[u] = "queued" /\ s.runner[u] \in Runner
    BY <2>1, <2>3 DEF Unheld, Tables
  <2>5. s.running[s.runner[u]] \subseteq x.running[s.runner[u]]
    BY <2>4 DEF IsAssigned, Tables
  <2> QED
    BY <2>1, <2>3, <2>4, <2>5 DEF Unheld
<1>6. HandsOut(s, x)
  BY <1>1 DEF HandsOut, IsAssigned
<1>7. Fits(s, x)
  <2>0. IsFiniteSet(s.running[r]) /\ Cardinality(s.running[r]) \in Nat /\ Slots[r] \in Nat
    BY FreeSlotsType, ParametersAreTyped
  <2>1. Cardinality(s.running[r]) < Slots[r]
    BY <1>1, <2>0 DEF FreeSlots
  <2>2. Cardinality(s.running[r] \union {t}) <= Slots[r]
    <3>1. Cardinality(s.running[r] \union {t}) \in
            {Cardinality(s.running[r]), Cardinality(s.running[r]) + 1}
      BY <2>0, FS_AddElement
    <3> QED
      BY <2>0, <2>1, <3>1
  <2>3. x.running[r] = s.running[r] \union {t}
    BY DEF IsAssigned, Tables
  <2>4. \A q \in Runner : q # r => x.running[q] = s.running[q]
    BY DEF IsAssigned, Tables
  <2>5. \A u \in Task : x.runner[u] = IF u = t THEN r ELSE s.runner[u]
    BY DEF IsAssigned, Tables
  <2> QED
    BY <2>2, <2>3, <2>4, <2>5 DEF Fits
<1> QED
  BY <1>2, <1>3, <1>4, <1>5, <1>6, <1>7 DEF Follows

\* of a noted failure,
LEMMA FollowsNoted ==
  ASSUME NEW s \in Tables, NEW x \in Tables, NEW t \in Task,
         s.status[t] \in {"queued", "failed"}, IsNoted(s, x, t, "failed")
  PROVE  Follows(s, x)
<1>1. x.status = [s.status EXCEPT ![t] = "failed"]
  BY DEF IsNoted, Transition, Target, IsTerminal, Terminal
<1>2. /\ x.created = s.created /\ x.runner = s.runner /\ x.pin = s.pin
      /\ x.link = s.link /\ x.running = s.running /\ x.asked = s.asked
      /\ x.changed = s.changed \union {t}
  BY DEF IsNoted
<1>3. x.result = s.result
  <2>1. x.result = [s.result EXCEPT ![t] = s.result[t] \/ FALSE]
    BY DEF IsNoted
  <2> QED
    BY <2>1 DEF Tables
<1>4. x.requeued = s.requeued
  BY DEF IsNoted, Tables
<1>5. Calm(s, x)
  BY <1>1 DEF Calm, Tables
<1>6. Grows(s, x)
  BY <1>1, <1>2, <1>3, <1>4 DEF Grows, Tables
<1>7. Sound(s) => Sound(x)
  BY <1>1, <1>2 DEF Sound, Tables
<1>8. Unheld(x) \subseteq Unheld(s)
  BY <1>1, <1>2 DEF Unheld, Tables
<1>9. HandsOut(s, x) /\ Fits(s, x)
  BY <1>2 DEF HandsOut, Fits
<1> QED
  BY <1>5, <1>6, <1>7, <1>8, <1>9 DEF Follows

\* of a freed slot,
LEMMA FollowsFreed ==
  ASSUME NEW s \in Tables, NEW x \in Tables, NEW t \in Task,
         s.status[t] # "queued", IsFreed(s, x, t)
  PROVE  Follows(s, x)
<1>1. /\ x.created = s.created /\ x.status = s.status /\ x.runner = s.runner
      /\ x.pin = s.pin /\ x.result = s.result /\ x.requeued = s.requeued
      /\ x.link = s.link /\ x.asked = s.asked /\ x.changed = s.changed
  BY DEF IsFreed
<1>2. \A r \in Runner : /\ x.running[r] \subseteq s.running[r]
                        /\ s.running[r] \subseteq x.running[r] \union {t}
  BY DEF IsFreed, Tables
<1>3. Calm(s, x)
  BY <1>1 DEF Calm
<1>4. Grows(s, x)
  BY <1>1 DEF Grows, Tables
<1>5. Sound(s) => Sound(x)
  BY <1>1, <1>2 DEF Sound
<1>6. Unheld(x) \subseteq Unheld(s)
  <2> SUFFICES ASSUME NEW u \in Unheld(x) PROVE u \in Unheld(s)
    OBVIOUS
  <2>1. u \in Task /\ s.status[u] = "queued" /\ s.runner[u] # NoRunner /\ u # t
    BY <1>1 DEF Unheld
  <2>2. s.runner[u] \in Runner
    BY <2>1 DEF Tables
  <2> QED
    BY <1>1, <1>2, <2>1, <2>2 DEF Unheld
<1>7. HandsOut(s, x) /\ Fits(s, x)
  BY <1>1, <1>2 DEF HandsOut, Fits
<1> QED
  BY <1>3, <1>4, <1>5, <1>6, <1>7 DEF Follows

\* and of a policy's retry of the task that has just failed.
LEMMA FollowsRequeued ==
  ASSUME NEW s \in Tables, NEW y \in Tables, NEW x \in Tables, NEW t \in Task,
         NEW into \in Runner \union {NoRunner},
         Follows(s, y), s.status[t] = "queued", y.status[t] = "failed",
         IsRequeued(y, x, t, into)
  PROVE  Follows(s, x)
<1>1. /\ x.created = y.created /\ x.result = y.result /\ x.link = y.link
      /\ x.running = y.running /\ x.asked = y.asked
      /\ x.changed = y.changed \union {t}
      /\ x.requeued = [y.requeued EXCEPT ![t] = y.requeued[t] + 1]
  BY DEF IsRequeued
<1>2. /\ x.status = [y.status EXCEPT ![t] = "queued"]
      /\ x.runner = [y.runner EXCEPT ![t] = NoRunner]
      /\ \A u \in Task : u # t => x.pin[u] = y.pin[u]
  BY DEF IsRequeued, Tables
<1>0. \A u \in Task : x.status[u] = IF u = t THEN "queued" ELSE y.status[u]
  <2>1. y.status \in [Task -> Status \union {"absent"}] /\ x.status = [y.status EXCEPT ![t] = "queued"]
    BY <1>2 DEF Tables
  <2> QED
    BY <2>1
<1>3. Calm(s, x)
  <2>1. Calm(s, y)
    BY DEF Follows
  <2> QED
    BY <1>0, <2>1 DEF Calm
<1>4. Grows(s, x)
  <2>1. ASSUME NEW u \in Task PROVE x.requeued[u] >= s.requeued[u]
    <3>1. s.requeued[u] \in Nat /\ y.requeued[u] \in Nat /\ y.requeued[u] >= s.requeued[u]
      BY DEF Follows, Grows, Tables
    <3>2. x.requeued[u] = IF u = t THEN y.requeued[u] + 1 ELSE y.requeued[u]
      BY <1>1 DEF Tables
    <3> QED
      BY <3>1, <3>2
  <2> QED
    BY <1>1, <1>2, <2>1 DEF Follows, Grows, Tables
<1>5. Sound(s) => Sound(x)
  <2> SUFFICES ASSUME Sound(y) PROVE Sound(x)
    BY DEF Follows
  <2>1. \A u \in Task : x.status[u] # "absent" <=> y.status[u] # "absent"
    BY <1>0
  <2>2. \A u \in Task : x.runner[u] # NoRunner => x.runner[u] = y.runner[u] /\ u # t
    BY <1>2 DEF Tables
  <2>3. \A u \in Task : x.runner[u] # NoRunner =>
          x.pin[u] \in {NoRunner, x.runner[u]} /\ <<"run", x.runner[u], u>> \in x.asked
    BY <1>1, <1>2, <2>2 DEF Sound
  <2>4. \A u \in Task : x.status[u] # "absent" => \E k \in 1..Len(x.created) : x.created[k] = u
    BY <1>1, <2>1 DEF Sound
  <2> QED
    BY <1>1, <2>1, <2>3, <2>4 DEF Sound
<1>6. Unheld(x) \subseteq Unheld(s)
  <2>1. Unheld(x) \subseteq Unheld(y)
    BY <1>1, <1>2 DEF Unheld, Tables
  <2> QED
    BY <2>1 DEF Follows
<1>7. HandsOut(s, x)
  BY <1>1 DEF Follows, HandsOut
<1>8. Fits(s, x)
  <2>1. \A u \in Task, r \in Runner : x.runner[u] = r => y.runner[u] = r
    BY <1>2, RunnersAreNumbers DEF Tables
  <2> QED
    BY <1>1, <2>1 DEF Follows, Fits
<1> QED
  BY <1>3, <1>4, <1>5, <1>6, <1>7, <1>8 DEF Follows

\* The relation as a set, to state facts about every such relation once.
FollowsSet == {p \in Tables \X Tables : Follows(p[1], p[2])}

\* What it means to be in it.
LEMMA FollowsSetIs ==
  \A s, x : <<s, x>> \in FollowsSet <=> s \in Tables /\ x \in Tables /\ Follows(s, x)
  BY DEF FollowsSet

\* Follows holds of every small step.
LEMMA FollowsSteady == Steady(FollowsSet)
<1>1. FollowsSet \subseteq Tables \X Tables
  BY DEF FollowsSet
<1>2. \A s \in Tables : <<s, s>> \in FollowsSet
  BY FollowsSetIs, FollowsReflexive
<1>3. \A s, x, y \in Tables :
        <<s, x>> \in FollowsSet /\ <<x, y>> \in FollowsSet => <<s, y>> \in FollowsSet
  BY FollowsSetIs, FollowsTransitive
<1>4. \A s, x \in Tables : <<s, x>> \in FollowsSet => \A t \in Task :
       x.status[t] = s.status[t] \/ (s.status[t] = "queued" /\ x.status[t] = "failed")
  BY FollowsSetIs DEF Follows, Calm
<1>5. \A s, x \in Tables, t \in Task, r \in Runner :
        IsReady(s, t) /\ IsAssigned(s, x, t, r) => <<s, x>> \in FollowsSet
  BY FollowsSetIs, FollowsAssigned
<1>6. \A s, x \in Tables, t \in Task :
        s.status[t] \in {"queued", "failed"} /\ IsNoted(s, x, t, "failed") => <<s, x>> \in FollowsSet
  BY FollowsSetIs, FollowsNoted
<1>7. \A s, x \in Tables, t \in Task :
        s.status[t] # "queued" /\ IsFreed(s, x, t) => <<s, x>> \in FollowsSet
  BY FollowsSetIs, FollowsFreed
<1>8. \A s, y, x \in Tables, t \in Task, into \in Runner \union {NoRunner} :
        /\ <<s, y>> \in FollowsSet
        /\ s.status[t] = "queued" /\ y.status[t] = "failed"
        /\ IsRequeued(y, x, t, into)
        => <<s, x>> \in FollowsSet
  BY FollowsSetIs, FollowsRequeued
<1> QED
  BY <1>1, <1>2, <1>3, <1>4, <1>5, <1>6, <1>7, <1>8 DEF Steady

\* So it holds over every cascade.
LEMMA FollowsCarries == Carries(FollowsSet)
  BY FollowsSteady, SteadyCarries

-----------------------------------------------------------------------------
\* What an event does.

\* The assigned tasks stay held, the others keep their status or fail; the task of
\* the event goes where the event says, or ends badly and is queued again.
Leads(s, a, t, e) ==
  /\ \A u \in Task \ {t} :
       a.status[u] = s.status[u] \/ (s.status[u] = "queued" /\ a.status[u] = "failed")
  /\ \/ a.status[t] = Transition(s.status[t], e)
     \/ /\ ~IsTerminal(s.status[t])
        /\ Transition(s.status[t], e) \in {"failed", "timed_out", "runner_lost"}
        /\ a.status[t] \in {"queued", "failed"}
  /\ a.created = s.created /\ a.link = s.link
  /\ s.asked \subseteq a.asked
  /\ s.changed \subseteq a.changed
  /\ \A u \in Task : a.status[u] # s.status[u] => u \in a.changed
  /\ \A u \in Task : s.result[u] => a.result[u]
  /\ \A u \in Task : a.requeued[u] >= s.requeued[u]
  /\ Sound(s) => Sound(a)
  /\ Unheld(a) \subseteq Unheld(s) \ {t}
  /\ \A r \in Runner, u \in Task :
       <<"run", r, u>> \in a.asked /\ <<"run", r, u>> \notin s.asked =>
         \A d \in Deps[u] : Met(Needs[u], s.status[d]) \/ Met(Needs[u], a.status[d])
  /\ Fits(s, a)

\* The tables just after the event was noted.
LEMMA NotedLeads ==
  ASSUME NEW s \in Tables, NEW z \in Tables, NEW t \in Task, NEW e \in Event,
         e # "requeued", s.status[t] # "absent", IsNoted(s, z, t, e)
  PROVE  /\ \A u \in Task : z.status[u] = IF u = t THEN Transition(s.status[t], e) ELSE s.status[u]
         /\ z.status[t] # "absent" /\ z.status[t] # "queued"
         /\ z.created = s.created /\ z.runner = s.runner /\ z.link = s.link
         /\ z.running = s.running /\ z.asked = s.asked /\ z.requeued = s.requeued
         /\ z.changed = s.changed \union {t}
         /\ \A u \in Task : s.result[u] => z.result[u]
         /\ Sound(s) => Sound(z)
         /\ Unheld(z) \subseteq Unheld(s) \ {t}
<1>1. \A u \in Task : z.status[u] = IF u = t THEN Transition(s.status[t], e) ELSE s.status[u]
  BY DEF IsNoted, Tables
<1>2. /\ z.created = s.created /\ z.runner = s.runner /\ z.pin = s.pin /\ z.link = s.link
      /\ z.running = s.running /\ z.asked = s.asked
      /\ z.changed = s.changed \union {t}
  BY DEF IsNoted
<1>3. z.requeued = s.requeued
  BY DEF IsNoted, Tables
<1>4. \A u \in Task : s.result[u] => z.result[u]
  <2>1. s.result \in [Task -> BOOLEAN]
    BY DEF Tables
  <2>2. z.result = [s.result EXCEPT ![t] =
                      s.result[t] \/ (e = "completed" /\ ~IsTerminal(s.status[t]))]
    BY DEF IsNoted
  <2> QED
    BY <2>1, <2>2
<1>5. z.status[t] # "absent" /\ z.status[t] # "queued"
  <2>1. z.status[t] = Transition(s.status[t], e)
    BY <1>1
  <2>2. CASE IsTerminal(s.status[t])
    BY <2>1, <2>2 DEF Transition, IsTerminal, Terminal
  <2>3. CASE ~IsTerminal(s.status[t])
    BY <2>1, <2>3 DEF Transition, Target, Event
  <2> QED
    BY <2>2, <2>3
<1>6. ASSUME Sound(s) PROVE Sound(z)
  <2>1. \A u \in Task : z.status[u] = "absent" => s.status[u] = "absent"
    BY <1>1, <1>5
  <2>2. \A u \in Task : s.status[u] # "absent" \/ z.status[u] = "absent"
    BY <1>1
  <2> QED
    BY <1>2, <1>6, <2>1, <2>2 DEF Sound
<1>7. Unheld(z) \subseteq Unheld(s) \ {t}
  BY <1>1, <1>2, <1>5 DEF Unheld
<1> QED
  BY <1>1, <1>2, <1>3, <1>4, <1>5, <1>6, <1>7

\* A noted event followed by a cascade.
LEMMA FollowedLeads ==
  ASSUME NEW s \in Tables, NEW z \in Tables, NEW a \in Tables, NEW t \in Task, NEW e \in Event,
         e # "requeued", s.status[t] # "absent", IsNoted(s, z, t, e), Follows(z, a)
  PROVE  Leads(s, a, t, e) /\ a.status[t] = Transition(s.status[t], e)
<1>1. /\ \A u \in Task : z.status[u] = IF u = t THEN Transition(s.status[t], e) ELSE s.status[u]
      /\ z.status[t] # "absent" /\ z.status[t] # "queued"
      /\ z.created = s.created /\ z.runner = s.runner /\ z.link = s.link
      /\ z.running = s.running /\ z.asked = s.asked /\ z.requeued = s.requeued
      /\ z.changed = s.changed \union {t}
      /\ \A u \in Task : s.result[u] => z.result[u]
      /\ Sound(s) => Sound(z)
      /\ Unheld(z) \subseteq Unheld(s) \ {t}
  BY NotedLeads
<1>2. \A u \in Task :
        a.status[u] = z.status[u] \/ (z.status[u] = "queued" /\ a.status[u] = "failed")
  BY DEF Follows, Calm
<1>3. a.status[t] = Transition(s.status[t], e)
  BY <1>1, <1>2
<1>4. \A u \in Task \ {t} :
        a.status[u] = s.status[u] \/ (s.status[u] = "queued" /\ a.status[u] = "failed")
  BY <1>1, <1>2
<1>5. /\ a.created = s.created /\ a.link = s.link
      /\ s.asked \subseteq a.asked
      /\ s.changed \subseteq a.changed
      /\ \A u \in Task : s.result[u] => a.result[u]
      /\ \A u \in Task : a.requeued[u] >= s.requeued[u]
  BY <1>1 DEF Follows, Grows
<1>6. \A u \in Task : a.status[u] # s.status[u] => u \in a.changed
  BY <1>1 DEF Follows, Grows
<1>7. (Sound(s) => Sound(a)) /\ Unheld(a) \subseteq Unheld(s) \ {t}
  BY <1>1 DEF Follows
<1>8. ASSUME NEW r \in Runner, NEW u \in Task,
             <<"run", r, u>> \in a.asked, <<"run", r, u>> \notin s.asked,
             NEW d \in Deps[u]
      PROVE  Met(Needs[u], s.status[d]) \/ Met(Needs[u], a.status[d])
  <2>1. DepsMetIn(u, z.status)
    BY <1>1, <1>8 DEF Follows, HandsOut
  <2>2. Met(Needs[u], z.status[d]) /\ d \in Task
    BY <2>1, SpecsAreTyped DEF DepsMetIn
  <2> QED
    BY <1>1, <1>3, <2>2
<1>9. Fits(s, a)
  BY <1>1 DEF Follows, Fits
<1> QED
  BY <1>3, <1>4, <1>5, <1>6, <1>7, <1>8, <1>9 DEF Leads

\* A bad ending that is queued again after its cascade.
LEMMA RetriedLeads ==
  ASSUME NEW s \in Tables, NEW z \in Tables, NEW y \in Tables, NEW x \in Tables,
         NEW a \in Tables, NEW t \in Task, NEW e \in Event,
         NEW into \in Runner \union {NoRunner},
         e # "requeued", s.status[t] # "absent", IsNoted(s, z, t, e), Follows(z, y),
         ~IsTerminal(s.status[t]),
         Transition(s.status[t], e) \in {"failed", "timed_out", "runner_lost"},
         IsRequeued(y, x, t, into), Follows(x, a)
  PROVE  Leads(s, a, t, e)
<1>1. Leads(s, y, t, e) /\ y.status[t] = Transition(s.status[t], e)
  BY FollowedLeads
<1>2. /\ \A u \in Task : x.status[u] = IF u = t THEN "queued" ELSE y.status[u]
      /\ x.created = y.created /\ x.result = y.result /\ x.link = y.link
      /\ x.running = y.running /\ x.asked = y.asked
      /\ x.changed = y.changed \union {t}
      /\ \A u \in Task : x.runner[u] = IF u = t THEN NoRunner ELSE y.runner[u]
      /\ \A u \in Task : u # t => x.pin[u] = y.pin[u]
      /\ \A u \in Task : x.requeued[u] = IF u = t THEN y.requeued[u] + 1 ELSE y.requeued[u]
  <2>1. /\ x.created = y.created /\ x.result = y.result /\ x.link = y.link
        /\ x.running = y.running /\ x.asked = y.asked
        /\ x.changed = y.changed \union {t}
    BY DEF IsRequeued
  <2>2. x.status = [y.status EXCEPT ![t] = "queued"] /\ DOMAIN y.status = Task
    BY DEF IsRequeued, Tables
  <2>3. \A u \in Task : x.status[u] = IF u = t THEN "queued" ELSE y.status[u]
    BY <2>2
  <2>4. x.runner = [y.runner EXCEPT ![t] = NoRunner] /\ DOMAIN y.runner = Task
    BY DEF IsRequeued, Tables
  <2>5. \A u \in Task : x.runner[u] = IF u = t THEN NoRunner ELSE y.runner[u]
    BY <2>4
  <2>6. /\ x.pin = [y.pin EXCEPT ![t] = IF into # NoRunner THEN into ELSE y.pin[t]]
        /\ DOMAIN y.pin = Task
    BY DEF IsRequeued, Tables
  <2>7. \A u \in Task : u # t => x.pin[u] = y.pin[u]
    BY <2>6
  <2>8. x.requeued = [y.requeued EXCEPT ![t] = y.requeued[t] + 1] /\ DOMAIN y.requeued = Task
    BY DEF IsRequeued, Tables
  <2>9. \A u \in Task : x.requeued[u] = IF u = t THEN y.requeued[u] + 1 ELSE y.requeued[u]
    BY <2>8
  <2> QED
    BY <2>1, <2>3, <2>5, <2>7, <2>9
<1>3. \A u \in Task :
        a.status[u] = x.status[u] \/ (x.status[u] = "queued" /\ a.status[u] = "failed")
  BY DEF Follows, Calm
<1>4. \A u \in Task \ {t} :
        a.status[u] = s.status[u] \/ (s.status[u] = "queued" /\ a.status[u] = "failed")
  <2> SUFFICES ASSUME NEW u \in Task \ {t}
               PROVE  a.status[u] = s.status[u] \/ (s.status[u] = "queued" /\ a.status[u] = "failed")
    OBVIOUS
  <2>1. y.status[u] = s.status[u] \/ (s.status[u] = "queued" /\ y.status[u] = "failed")
    BY <1>1 DEF Leads
  <2>2. x.status[u] = y.status[u]
    BY <1>2
  <2>3. a.status[u] = x.status[u] \/ (x.status[u] = "queued" /\ a.status[u] = "failed")
    BY <1>3
  <2> QED
    BY <2>1, <2>2, <2>3
<1>5. a.status[t] \in {"queued", "failed"}
  BY <1>2, <1>3
<1>6. /\ a.created = s.created /\ a.link = s.link
      /\ s.asked \subseteq a.asked
      /\ s.changed \subseteq a.changed /\ t \in a.changed
      /\ \A u \in Task : s.result[u] => a.result[u]
  BY <1>1, <1>2 DEF Leads, Follows, Grows
<1>7. ASSUME NEW u \in Task PROVE a.requeued[u] >= s.requeued[u]
  <2>1. /\ s.requeued[u] \in Nat /\ y.requeued[u] \in Nat
        /\ x.requeued[u] \in Nat /\ a.requeued[u] \in Nat
    BY DEF Tables
  <2>2. y.requeued[u] >= s.requeued[u] /\ a.requeued[u] >= x.requeued[u]
    BY <1>1 DEF Leads, Follows, Grows
  <2> QED
    BY <1>2, <2>1, <2>2
<1>8. ASSUME NEW u \in Task, a.status[u] # s.status[u] PROVE u \in a.changed
  <2>1. CASE u = t
    BY <1>6, <2>1
  <2>2. CASE u # t
    <3>1. a.status[u] # x.status[u] \/ y.status[u] # s.status[u]
      BY <1>2, <1>8, <2>2
    <3> QED
      BY <1>1, <1>2, <3>1 DEF Leads, Follows, Grows
  <2> QED
    BY <2>1, <2>2
<1>9. ASSUME Sound(s) PROVE Sound(a)
  <2>0. Sound(y)
    BY <1>1, <1>9 DEF Leads
  <2>1. Sound(x)
    <3>1. y.status[t] # "absent"
      BY <1>1
    <3>2. \A u \in Task : x.status[u] = "absent" <=> y.status[u] = "absent"
      BY <1>2, <3>1
    <3>3. \A u \in Task : x.runner[u] # NoRunner =>
            x.pin[u] \in {NoRunner, x.runner[u]} /\ <<"run", x.runner[u], u>> \in x.asked
      BY <1>2, <2>0 DEF Sound
    <3>4. \A u \in Task : x.status[u] # "absent" => \E k \in 1..Len(x.created) : x.created[k] = u
      BY <1>2, <2>0, <3>2 DEF Sound
    <3> QED
      BY <1>2, <2>0, <3>2, <3>3, <3>4 DEF Sound
  <2> QED
    BY <2>1 DEF Follows
<1>10. Unheld(a) \subseteq Unheld(s) \ {t}
  <2>1. Unheld(x) \subseteq Unheld(y) \ {t}
    BY <1>2 DEF Unheld
  <2> QED
    BY <1>1, <2>1 DEF Leads, Follows
<1>11. ASSUME NEW r \in Runner, NEW u \in Task,
              <<"run", r, u>> \in a.asked, <<"run", r, u>> \notin s.asked,
              NEW d \in Deps[u]
       PROVE  Met(Needs[u], s.status[d]) \/ Met(Needs[u], a.status[d])
  <2>0. d \in Task /\ Needs[u] \in Condition
    BY SpecsAreTyped
  <2>1. \A c \in Condition : /\ ~Met(c, "queued") /\ ~Met(c, "failed")
                             /\ ~Met(c, "timed_out") /\ ~Met(c, "runner_lost")
    BY DEF Met, Condition
  <2>2. CASE <<"run", r, u>> \in y.asked
    <3>1. Met(Needs[u], s.status[d]) \/ Met(Needs[u], y.status[d])
      BY <1>1, <1>11, <2>2 DEF Leads
    <3>2. d # t /\ Met(Needs[u], y.status[d]) => y.status[d] = s.status[d]
      BY <1>1, <2>0, <2>1 DEF Leads
    <3>3. ~Met(Needs[u], y.status[t])
      BY <1>1, <2>0, <2>1
    <3> QED
      BY <3>1, <3>2, <3>3
  <2>3. CASE <<"run", r, u>> \notin y.asked
    <3>1. DepsMetIn(u, x.status)
      BY <1>2, <1>11, <2>3 DEF Follows, HandsOut
    <3>2. Met(Needs[u], x.status[d])
      BY <3>1 DEF DepsMetIn
    <3>3. d # t
      BY <1>2, <2>0, <2>1, <3>2
    <3>4. x.status[d] = s.status[d]
      BY <1>1, <1>2, <2>0, <2>1, <3>2, <3>3 DEF Leads
    <3> QED
      BY <3>2, <3>4
  <2> QED
    BY <2>2, <2>3
<1>12. Fits(s, a)
  <2>1. Fits(s, x)
    <3>1. \A u \in Task, r \in Runner : x.runner[u] = r => y.runner[u] = r
      BY <1>2, RunnersAreNumbers
    <3> QED
      BY <1>1, <1>2, <3>1 DEF Leads, Fits
  <2> QED
    BY <2>1, FitsTransitive DEF Follows
<1> QED
  BY <1>1, <1>4, <1>5, <1>6, <1>7, <1>8, <1>9, <1>10, <1>11, <1>12 DEF Leads

\* Every level of a cascade leaves tables,
LEMMA CascadeType == \A n \in Nat : Cascade[n] \in Failers
<1>1. \A n \in Nat : n = 0 \/ (n - 1 \in Nat /\ n = (n - 1) + 1)
  OBVIOUS
<1> QED
  BY <1>1, CascadeLevels

\* and so does `apply_event`.
LEMMA ApplyEventType ==
  ASSUME NEW s \in Tables, NEW t \in Task, NEW e \in Event
  PROVE  ApplyEvent(s, t, e) \in Tables
  BY CascadeType, LastType, ApplyEventWithType DEF ApplyEvent

\* `apply_event` does what Leads says.
LEMMA EventLeads ==
  ASSUME NEW s \in Tables, NEW t \in Task, NEW e \in Event, e # "requeued",
         s.status[t] # "absent", NEW a, a = ApplyEvent(s, t, e)
  PROVE  a \in Tables /\ Leads(s, a, t, e)
<1> DEFINE fails == Cascade[Last]
           z == Noted(s, t, e)
<1>1. fails \in Failers /\ a \in Tables
  BY CascadeType, LastType, ApplyEventType
<1>2. \A x \in Tables, d \in Task : <<x, fails[<<x, d>>]>> \in FollowsSet
  BY FollowsCarries, CascadeCarries, LastType
<1>3. z \in Tables /\ IsNoted(s, z, t, e)
  BY NotedFacts
<1>4. a = ApplyEventWith(s, t, e, fails)
  BY DEF ApplyEvent
<1>5. Outcome(FollowsSet, s, t, e, z, a)
  BY <1>1, <1>2, <1>4, FollowsCarries, ApplyShape
<1> HIDE DEF fails, z
<1>6. CASE <<z, a>> \in FollowsSet
  <2>1. Follows(z, a)
    BY <1>1, <1>3, <1>6, FollowsSetIs
  <2> QED
    BY <1>1, <1>3, <2>1, FollowedLeads
<1>7. CASE /\ ~IsTerminal(s.status[t])
           /\ Transition(s.status[t], e) \in {"failed", "timed_out", "runner_lost"}
           /\ \E y \in Tables, into \in Runner \union {NoRunner} :
                <<z, y>> \in FollowsSet /\ RetrySpecOk(y, t, into) /\ a = Retry(y, t, into)
  <2>1. PICK y \in Tables, into \in Runner \union {NoRunner} :
               <<z, y>> \in FollowsSet /\ a = Retry(y, t, into)
    BY <1>7
  <2> DEFINE x == Requeue(y, t, into)
  <2>2. IsRequeued(y, x, t, into) /\ x \in Tables
    <3>1. IsRequeued(y, x, t, into)
      BY RequeueStep
    <3> QED
      BY <3>1 DEF IsRequeued
  <2>3. a = Schedule(x)
    BY <2>1 DEF Retry
  <2> HIDE DEF x
  <2>4. Follows(x, a)
    BY <1>1, <2>2, <2>3, FollowsCarries, FollowsSetIs DEF Carries
  <2>5. Follows(z, y)
    BY <1>3, <2>1, FollowsSetIs
  <2> QED
    BY <1>1, <1>3, <1>7, <2>2, <2>4, <2>5, RetriedLeads
<1> QED
  BY <1>5, <1>6, <1>7 DEF Outcome

-----------------------------------------------------------------------------
\* No ready task is left while a runner that could take it has a slot.

\* A push that conflicts late completes a dependency and schedules nothing.
Undecided(s, t) == \E d \in Deps[t] : s.status[d] \in {"conflicted", "changes_requested"}

\* Whoever could start is either over the budget or fits nowhere.
Served(s) ==
  \/ OverDailyBudget(s)
  \/ \A t \in Task : IsReady(s, t) /\ ~Undecided(s, t) => Fit(s, t, NoRunner) = {}

\* Served, whatever the tasks wait for.
Full(s) ==
  \/ OverDailyBudget(s)
  \/ \A t \in Task : IsReady(s, t) => Fit(s, t, NoRunner) = {}

\* Results are never taken back, so a budget that is spent stays spent.
LEMMA BudgetStaysSpent ==
  ASSUME NEW s \in Tables, NEW x \in Tables, \A t \in Task : s.result[t] => x.result[t],
         OverDailyBudget(s)
  PROVE  OverDailyBudget(x)
<1> DEFINE a == {t \in Task : s.result[t]}
           b == {t \in Task : x.result[t]}
<1>1. a \subseteq b /\ a # {} /\ Cardinality(a) > Budget
  BY DEF OverDailyBudget
<1>2. IsFiniteSet(b)
  BY TasksAreNumbers, FS_Subset
<1>3. Cardinality(a) <= Cardinality(b) /\ Cardinality(a) \in Nat /\ Cardinality(b) \in Nat
  BY <1>1, <1>2, FS_Subset, FS_CardinalityType
<1>4. b # {} /\ Cardinality(b) > Budget
  BY <1>1, <1>3, ParametersAreTyped
<1> QED
  BY <1>4 DEF OverDailyBudget

\* Fewer slots, fewer candidates.
LEMMA FewerFit ==
  ASSUME NEW s \in Tables, NEW x \in Tables, NEW t \in Task, x.pin[t] = s.pin[t],
         \A r \in Runner : x.link[r] = "connected" =>
           s.link[r] = "connected" /\ s.running[r] \subseteq x.running[r]
  PROVE  Fit(x, t, NoRunner) \subseteq Fit(s, t, NoRunner)
<1> SUFFICES ASSUME NEW r \in Fit(x, t, NoRunner) PROVE r \in Fit(s, t, NoRunner)
  OBVIOUS
<1>1. /\ r \in Runner /\ x.link[r] = "connected" /\ FreeSlots(x, r) > 0 /\ t \in Able[r]
      /\ x.pin[t] \in {NoRunner, r} /\ r # NoRunner
  BY DEF Fit, CanRun, IsConnected
<1>2. /\ Cardinality(s.running[r]) \in Nat /\ Cardinality(x.running[r]) \in Nat
      /\ IsFiniteSet(x.running[r]) /\ Slots[r] \in Nat
  BY <1>1, FreeSlotsType, ParametersAreTyped
<1>3. Cardinality(s.running[r]) <= Cardinality(x.running[r])
  BY <1>1, <1>2, FS_Subset
<1>4. FreeSlots(s, r) > 0
  BY <1>1, <1>2, <1>3 DEF FreeSlots
<1> QED
  BY <1>1, <1>4 DEF Fit, CanRun, IsConnected

\* What a step may do without serving anyone: take slots, and take tasks out of those
\* that wait.
LEMMA ServedStays ==
  ASSUME NEW s \in Tables, NEW x \in Tables, Served(s),
         \A t \in Task : s.result[t] => x.result[t],
         \A t \in Task : IsReady(x, t) /\ ~Undecided(x, t) =>
           IsReady(s, t) /\ ~Undecided(s, t) /\ x.pin[t] = s.pin[t],
         \A r \in Runner : x.link[r] = "connected" =>
           s.link[r] = "connected" /\ s.running[r] \subseteq x.running[r]
  PROVE  Served(x)
<1>1. CASE OverDailyBudget(s)
  BY <1>1, BudgetStaysSpent DEF Served
<1>2. CASE ~OverDailyBudget(s)
  <2>1. ASSUME NEW t \in Task, IsReady(x, t), ~Undecided(x, t)
        PROVE  Fit(x, t, NoRunner) = {}
    <3>1. IsReady(s, t) /\ ~Undecided(s, t) /\ x.pin[t] = s.pin[t]
      BY <2>1
    <3>2. Fit(s, t, NoRunner) = {}
      BY <1>2, <3>1 DEF Served
    <3>3. Fit(x, t, NoRunner) \subseteq Fit(s, t, NoRunner)
      BY <3>1, FewerFit
    <3> QED
      BY <3>2, <3>3
  <2> QED
    BY <2>1 DEF Served
<1> QED
  BY <1>1, <1>2

\* A task that was offered is assigned, or nobody could take it.
LEMMA OfferServes ==
  ASSUME NEW s \in Tables, NEW t \in Task, Offer(s, t) = s, IsReady(s, t), ~OverDailyBudget(s)
  PROVE  Fit(s, t, NoRunner) = {}
<1> DEFINE r == Candidate(s, t)
<1> SUFFICES ASSUME Fit(s, t, NoRunner) # {} PROVE FALSE
  OBVIOUS
<1>1. r \in Fit(s, t, NoRunner)
  BY CandidateFits DEF Candidate
<1>2. r \in Runner /\ r # NoRunner
  BY <1>1 DEF Fit
<1>3. s.runner[t] = NoRunner
  BY DEF IsReady
<1>4. s = [s EXCEPT !.runner[t]  = r,
                    !.running[r] = @ \union {t},
                    !.asked      = @ \union {<<"run", r, t>>},
                    !.changed    = @ \union {t}]
  BY <1>2 DEF Offer, AssignNext
<1> HIDE DEF r
<1>5. s.runner = [s.runner EXCEPT ![t] = r]
  BY <1>4 DEF Tables
<1>6. s.runner[t] = r
  BY <1>5 DEF Tables
<1> QED
  BY <1>2, <1>3, <1>6

\* After `schedule` nobody is left: slots only fill while it runs, so a task that fitted
\* nowhere when its turn came fits nowhere at the end.
LEMMA ScheduleServes ==
  ASSUME NEW s \in Tables, Sound(s)
  PROVE  Full(Schedule(s))
<1> DEFINE n == Len(s.created)
           f == Offered(s)
           Same(x) == /\ x \in Tables /\ x.created = s.created /\ x.status = s.status
                      /\ x.result = s.result
           Done(x, t) == IsReady(x, t) => OverDailyBudget(x) \/ Fit(x, t, NoRunner) = {}
           P == {k \in 0..n : Same(f[k]) /\ \A j \in 1..k : Done(f[k], s.created[j])}
<1>1. /\ n \in Nat /\ f[0] = s
      /\ \A k \in 1..n : s.created[k] \in Task /\ f[k] = Offer(f[k - 1], s.created[k])
  BY OfferedWalk
<1> HIDE DEF n, f
<1>2. 0 \in P
  BY <1>1
<1>3. ASSUME NEW x \in Tables, Same(x), NEW t \in Task, NEW y, y = Offer(x, t)
      PROVE  /\ Same(y)
             /\ Done(y, t)
             /\ \A u \in Task : Done(x, u) => Done(y, u)
  <2>1. CASE y = x
    <3>1. Done(x, t)
      BY <1>3, <2>1, OfferServes
    <3> QED
      BY <1>3, <2>1, <3>1
  <2>2. CASE y # x
    <3>1. PICK r \in Runner : IsReady(x, t) /\ y \in Tables /\ IsAssigned(x, y, t, r)
      BY <1>3, <2>2, OfferFacts
    <3>2. /\ y.created = x.created /\ y.status = x.status /\ y.result = x.result
          /\ y.pin = x.pin /\ y.link = x.link
          /\ y.runner[t] = r /\ r # NoRunner
          /\ \A u \in Task : u # t => y.runner[u] = x.runner[u]
          /\ \A q \in Runner : x.running[q] \subseteq y.running[q]
      BY <3>1, RunnersAreNumbers DEF IsAssigned, Tables
    <3>3. ~IsReady(y, t)
      BY <3>2 DEF IsReady
    <3>4. ASSUME NEW u \in Task, Done(x, u), IsReady(y, u)
          PROVE  OverDailyBudget(y) \/ Fit(y, u, NoRunner) = {}
      <4>1. u # t /\ IsReady(x, u)
        BY <3>2, <3>3, <3>4 DEF IsReady
      <4>2. OverDailyBudget(x) \/ Fit(x, u, NoRunner) = {}
        BY <3>4, <4>1
      <4>3. Fit(y, u, NoRunner) \subseteq Fit(x, u, NoRunner)
        BY <3>1, <3>2, FewerFit
      <4>4. OverDailyBudget(x) => OverDailyBudget(y)
        BY <3>2 DEF OverDailyBudget
      <4> QED
        BY <4>2, <4>3, <4>4
    <3> QED
      BY <1>3, <3>1, <3>2, <3>3, <3>4
  <2> QED
    BY <2>1, <2>2
<1>4. ASSUME NEW k \in 1..n, k - 1 \in P PROVE k \in P
  <2> DEFINE x == f[k - 1]
             y == f[k]
             t == s.created[k]
  <2>1. t \in Task /\ y = Offer(x, t)
    BY <1>1
  <2>2. x \in Tables /\ Same(x) /\ \A j \in 1..(k - 1) : Done(x, s.created[j])
    BY <1>4
  <2> HIDE DEF Same, Done
  <2>3. Same(y) /\ Done(y, t) /\ \A u \in Task : Done(x, u) => Done(y, u)
    BY <1>3, <2>1, <2>2
  <2>4. k \in 0..n /\ \A j \in 1..k : j \in 1..n /\ (j = k \/ j \in 1..(k - 1))
    BY <1>1
  <2>5. ASSUME NEW j \in 1..k PROVE Done(y, s.created[j])
    <3>1. CASE j = k
      BY <2>3, <3>1
    <3>2. CASE j \in 1..(k - 1)
      BY <1>1, <2>2, <2>3, <2>4, <3>2
    <3> QED
      BY <2>4, <3>1, <3>2
  <2> QED
    BY <2>3, <2>4, <2>5
<1>5. n \in P
  <2> HIDE DEF P
  <2>1. \A k \in 0..n : k \in P
    BY <1>1, <1>2, <1>4, CountingTo
  <2> QED
    BY <1>1, <2>1
<1> DEFINE x == Schedule(s)
<1>6. x = f[n]
  BY DEF Schedule, f, n
<1> HIDE DEF x
<1>7. Same(x) /\ \A j \in 1..n : Done(x, s.created[j])
  BY <1>5, <1>6
<1>8. ASSUME NEW t \in Task, IsReady(x, t)
      PROVE  OverDailyBudget(x) \/ Fit(x, t, NoRunner) = {}
  <2>1. s.status[t] # "absent"
    BY <1>7, <1>8 DEF IsReady
  <2>2. PICK k \in 1..n : s.created[k] = t
    BY <2>1 DEF Sound, n
  <2> QED
    BY <1>7, <1>8, <2>2
<1> QED
  BY <1>8 DEF Full, x

\* The stronger implies the weaker.
LEMMA FullServes == \A s : Full(s) => Served(s)
  BY DEF Full, Served

\* A task that is queued again keeps the tables sound.
LEMMA RequeuedSound ==
  ASSUME NEW s \in Tables, NEW x \in Tables, NEW t \in Task,
         NEW into \in Runner \union {NoRunner},
         Sound(s), s.status[t] # "absent", IsRequeued(s, x, t, into)
  PROVE  Sound(x)
<1>1. /\ \A u \in Task : x.status[u] = IF u = t THEN "queued" ELSE s.status[u]
      /\ x.created = s.created /\ x.link = s.link /\ x.running = s.running /\ x.asked = s.asked
      /\ \A u \in Task : x.runner[u] = IF u = t THEN NoRunner ELSE s.runner[u]
      /\ \A u \in Task : u # t => x.pin[u] = s.pin[u]
  BY DEF IsRequeued, Tables
<1>2. \A u \in Task : x.status[u] = "absent" <=> s.status[u] = "absent"
  BY <1>1
<1>3. \A u \in Task : x.runner[u] # NoRunner =>
        x.pin[u] \in {NoRunner, x.runner[u]} /\ <<"run", x.runner[u], u>> \in x.asked
  BY <1>1 DEF Sound
<1>4. \A u \in Task : x.status[u] # "absent" => \E k \in 1..Len(x.created) : x.created[k] = u
  BY <1>1, <1>2 DEF Sound
<1> QED
  BY <1>1, <1>2, <1>3, <1>4 DEF Sound

\* A retry queues the task and schedules.
LEMMA RetryServes ==
  ASSUME NEW s \in Tables, Sound(s), NEW t \in Task, NEW into \in Runner \union {NoRunner},
         s.status[t] # "absent"
  PROVE  Served(Retry(s, t, into))
<1> DEFINE x == Requeue(s, t, into)
<1>1. IsRequeued(s, x, t, into)
  BY RequeueStep
<1>2. x \in Tables
  BY <1>1 DEF IsRequeued
<1> HIDE DEF x
<1>3. Sound(x)
  BY <1>1, <1>2, RequeuedSound
<1>4. Full(Schedule(x))
  BY <1>2, <1>3, ScheduleServes
<1> QED
  BY <1>4, FullServes DEF Retry, x

\* A noted event, unless it is one that completes or approves the task.
LEMMA NotedServes ==
  ASSUME NEW s \in Tables, NEW z \in Tables, NEW t \in Task, NEW e \in Event,
         e # "requeued", s.status[t] # "absent", IsNoted(s, z, t, e), Served(s),
         \/ IsTerminal(s.status[t])
         \/ Transition(s.status[t], e) \notin {"approved", "awaiting_review"}
  PROVE  Served(z)
<1>1. /\ \A u \in Task : z.status[u] = IF u = t THEN Transition(s.status[t], e) ELSE s.status[u]
      /\ z.status[t] # "queued"
      /\ z.runner = s.runner /\ z.link = s.link /\ z.running = s.running
      /\ \A u \in Task : s.result[u] => z.result[u]
  BY NotedLeads
<1>2. z.pin = s.pin
  BY DEF IsNoted
<1>3. \/ z.status[t] = s.status[t]
      \/ z.status[t] \in {"running", "rejected", "changes_requested", "conflicted",
                          "failed", "timed_out", "runner_lost", "cancelled"}
  BY <1>1 DEF Transition, Target, Event
<1>4. ASSUME NEW u \in Task, IsReady(z, u), ~Undecided(z, u)
      PROVE  IsReady(s, u) /\ ~Undecided(s, u)
  <2>1. u # t /\ s.status[u] = "queued" /\ s.runner[u] = NoRunner
    BY <1>1, <1>4 DEF IsReady
  <2>2. ASSUME NEW d \in Deps[u] PROVE z.status[d] = s.status[d]
    <3>1. d \in Task /\ Needs[u] \in Condition
      BY SpecsAreTyped
    <3>2. Met(Needs[u], z.status[d]) /\ z.status[d] \notin {"conflicted", "changes_requested"}
      BY <1>4 DEF IsReady, DepsMetIn, Undecided
    <3>3. CASE d = t
      BY <1>3, <3>1, <3>2, <3>3 DEF Met, Condition
    <3>4. CASE d # t
      BY <1>1, <3>1, <3>4
    <3> QED
      BY <3>3, <3>4
  <2> QED
    BY <1>4, <2>1, <2>2 DEF IsReady, DepsMetIn, Undecided
<1> QED
  BY <1>1, <1>2, <1>4, ServedStays

\* A cascade serves whoever was served before it.
Serves(s, x) == Follows(s, x) /\ (Sound(s) /\ Served(s) => Served(x))

\* The relation as a set.
ServesSet == {p \in Tables \X Tables : Serves(p[1], p[2])}

\* What it means to be in it.
LEMMA ServesSetIs ==
  \A s, x : <<s, x>> \in ServesSet <=> s \in Tables /\ x \in Tables /\ Serves(s, x)
  BY DEF ServesSet

\* It is one that a cascade carries.
LEMMA ServesCarries == Carries(ServesSet)
<1>1. ServesSet \subseteq Tables \X Tables
  BY DEF ServesSet
<1>2. \A s \in Tables : <<s, s>> \in ServesSet
  BY FollowsReflexive, ServesSetIs DEF Serves
<1>3. \A s, x, y \in Tables :
        <<s, x>> \in ServesSet /\ <<x, y>> \in ServesSet => <<s, y>> \in ServesSet
  <2> SUFFICES ASSUME NEW s \in Tables, NEW x \in Tables, NEW y \in Tables,
                      Serves(s, x), Serves(x, y)
               PROVE  Serves(s, y)
    BY ServesSetIs
  <2>1. Follows(s, y)
    BY FollowsTransitive DEF Serves
  <2>2. Sound(s) => Sound(x)
    BY DEF Serves, Follows
  <2> QED
    BY <2>1, <2>2 DEF Serves
<1>4. \A s, x \in Tables : <<s, x>> \in ServesSet => \A t \in Task :
        x.status[t] = s.status[t] \/ (s.status[t] = "queued" /\ x.status[t] = "failed")
  BY ServesSetIs DEF Serves, Follows, Calm
<1>5. ASSUME NEW s \in Tables PROVE <<s, Schedule(s)>> \in ServesSet
  <2>1. Schedule(s) \in Tables /\ Follows(s, Schedule(s))
    BY ScheduleType, FollowsCarries, FollowsSetIs DEF Carries
  <2>2. Sound(s) => Served(Schedule(s))
    BY ScheduleServes, FullServes
  <2> QED
    BY <2>1, <2>2, ServesSetIs DEF Serves
<1>6. ASSUME NEW s \in Tables, NEW t \in Task, s.status[t] \in {"queued", "failed"}
      PROVE  <<s, Noted(s, t, "failed")>> \in ServesSet
  <2> DEFINE z == Noted(s, t, "failed")
  <2>1. "failed" \in Event
    BY DEF Event
  <2>2. z \in Tables /\ IsNoted(s, z, t, "failed")
    BY <2>1, NotedFacts
  <2>3. Follows(s, z)
    BY <1>6, <2>1, FollowsCarries, FollowsSetIs DEF Carries
  <2> HIDE DEF z
  <2>4. Transition(s.status[t], "failed") \notin {"approved", "awaiting_review"}
    BY <1>6 DEF Transition, Target, IsTerminal, Terminal
  <2>5. Served(s) => Served(z)
    BY <1>6, <2>1, <2>2, <2>4, NotedServes
  <2> QED
    BY <2>2, <2>3, <2>5, ServesSetIs DEF Serves, z
<1>7. ASSUME NEW s \in Tables, NEW t \in Task, s.status[t] # "queued", s.runner[t] # NoRunner
      PROVE  <<s, Schedule(Freed(s, t))>> \in ServesSet
  <2> DEFINE x == Freed(s, t)
  <2>1. IsFreed(s, x, t) /\ x \in Tables
    <3>1. IsFreed(s, x, t)
      BY <1>7, FreedStep
    <3> QED
      BY <3>1 DEF IsFreed
  <2>2. Follows(s, x)
    BY <1>7, <2>1, FollowsFreed
  <2>3. Schedule(x) \in Tables /\ Follows(s, Schedule(x))
    BY <1>7, <2>1, ScheduleType, FollowsCarries, FollowsSetIs DEF Carries
  <2> HIDE DEF x
  <2>4. Sound(s) => Served(Schedule(x))
    BY <2>1, <2>2, ScheduleServes, FullServes DEF Follows
  <2> QED
    BY <2>3, <2>4, ServesSetIs DEF Serves, x
<1>8. ASSUME NEW s \in Tables, NEW y \in Tables, NEW t \in Task,
             NEW into \in Runner \union {NoRunner},
             <<s, y>> \in ServesSet, s.status[t] = "queued", y.status[t] = "failed",
             RetrySpecOk(y, t, into)
      PROVE  <<s, Retry(y, t, into)>> \in ServesSet
  <2>1. Serves(s, y) /\ Follows(s, y)
    BY <1>8, ServesSetIs DEF Serves
  <2>2. Retry(y, t, into) \in Tables /\ Follows(s, Retry(y, t, into))
    <3>1. <<s, y>> \in FollowsSet
      BY <2>1, FollowsSetIs
    <3>2. <<s, Retry(y, t, into)>> \in FollowsSet
      BY <1>8, <3>1, FollowsCarries DEF Carries
    <3> QED
      BY <3>2, FollowsSetIs
  <2>3. Sound(s) => Sound(y)
    BY <2>1 DEF Follows
  <2>4. Sound(s) => Served(Retry(y, t, into))
    BY <1>8, <2>3, RetryServes
  <2> QED
    BY <2>2, <2>4, ServesSetIs DEF Serves
<1> QED
  BY <1>1, <1>2, <1>3, <1>4, <1>5, <1>6, <1>7, <1>8 DEF Carries

\* The tables after an event is recorded.
LEMMA RecordedServes ==
  ASSUME NEW s \in Tables, NEW t \in Task, NEW e \in Event, e # "requeued",
         s.status[t] # "absent", Sound(s), NEW x, x = Recorded(s, t, e)
  PROVE  /\ x \in Tables /\ Sound(x)
         /\ x.status[t] = Transition(s.status[t], e)
         /\ \/ Served(x)
            \/ /\ ~IsTerminal(s.status[t])
               /\ Transition(s.status[t], e) \in {"approved", "awaiting_review"}
            \/ ~Served(s)
<1> DEFINE z == Noted(s, t, e)
<1>1. IsNoted(s, z, t, e) /\ z \in Tables /\ z.runner = s.runner
      /\ z.status[t] = Transition(s.status[t], e)
  BY NotedFacts
<1>2. x \in Tables /\ Follows(z, x)
  BY <1>1, RecordedType, FollowsCarries, RecordedCarries, FollowsSetIs
<1> HIDE DEF z
<1>3. Sound(z) /\ z.status[t] # "queued"
  BY <1>1, NotedLeads
<1>4. Sound(x)
  BY <1>2, <1>3 DEF Follows
<1>5. x.status[t] = Transition(s.status[t], e)
  BY <1>1, <1>2, <1>3 DEF Follows, Calm
<1>6. CASE FreesSlot(s, t, e)
  <2> DEFINE y == Freed(z, t)
  <2>1. IsFreed(z, y, t) /\ y \in Tables
    <3>1. IsFreed(z, y, t)
      BY <1>1, <1>6, FreedStep DEF FreesSlot
    <3> QED
      BY <3>1 DEF IsFreed
  <2>2. Sound(y)
    BY <1>1, <1>3, <2>1, FollowsFreed DEF Follows
  <2>3. x = Schedule(y)
    BY <1>6 DEF Recorded, z
  <2> HIDE DEF y
  <2>4. Served(x)
    BY <2>1, <2>2, <2>3, ScheduleServes, FullServes
  <2> QED
    BY <1>2, <1>4, <1>5, <2>4
<1>7. CASE ~FreesSlot(s, t, e)
  <2>1. x = z
    BY <1>7 DEF Recorded, z
  <2> QED
    BY <1>1, <1>4, <1>5, <2>1, NotedServes
<1> QED
  BY <1>6, <1>7

\* `apply_event` leaves nobody waiting who could start.
LEMMA EventServes ==
  ASSUME NEW s \in Tables, NEW t \in Task, NEW e \in Event, e # "requeued",
         s.status[t] # "absent", Sound(s), Served(s), NEW a, a = ApplyEvent(s, t, e)
  PROVE  Served(a)
<1> DEFINE fails == Cascade[Last]
           next == Recorded(s, t, e)
           now == Transition(s.status[t], e)
           y == fails[<<next, t>>]
<1>1. /\ next \in Tables /\ Sound(next) /\ next.status[t] = now
      /\ Served(next) \/ (~IsTerminal(s.status[t]) /\ now \in {"approved", "awaiting_review"})
  BY RecordedServes
<1>2. <<next, y>> \in ServesSet
  BY <1>1, ServesCarries, CascadeCarries, LastType
<1>3. y \in Tables /\ Serves(next, y)
  BY <1>2, ServesSetIs
<1>4. Served(Schedule(next))
  BY <1>1, ScheduleServes, FullServes
<1>5. CASE IsTerminal(s.status[t])
  <2>1. a = next
    BY <1>5 DEF ApplyEvent, ApplyEventWith
  <2> QED
    BY <1>1, <1>5, <2>1
<1>6. CASE ~IsTerminal(s.status[t]) /\ now \in {"failed", "timed_out", "runner_lost"}
  <2>1. a = MaybeReassign(y, t, now)
    BY <1>6 DEF ApplyEvent, ApplyEventWith
  <2> DEFINE into == CandidateExcluding(y, t, y.runner[t])
  <2>2. a = y \/ (RetrySpecOk(y, t, into) /\ a = Retry(y, t, into))
    BY <2>1 DEF MaybeReassign
  <2>3. into \in Runner \union {NoRunner}
    BY <1>3, CandidateType
  <2> HIDE DEF into, y, next, now
  <2>4. Served(y) /\ Sound(y)
    BY <1>1, <1>3, <1>6 DEF Serves, Follows
  <2>5. RetrySpecOk(y, t, into) => Served(Retry(y, t, into))
    BY <1>3, <2>3, <2>4, RetryServes DEF RetrySpecOk, Retryable
  <2> QED
    BY <2>2, <2>4, <2>5
<1>7. CASE ~IsTerminal(s.status[t]) /\ now \notin {"failed", "timed_out", "runner_lost"}
  <2>1. \/ now \in {"cancelled", "rejected"} /\ a = y
        \/ now \in {"approved", "awaiting_review"} /\ a = Schedule(next)
        \/ now \notin {"approved", "awaiting_review"} /\ a = next
    BY <1>7 DEF ApplyEvent, ApplyEventWith
  <2> HIDE DEF y, next, now
  <2> QED
    BY <1>1, <1>3, <1>4, <2>1 DEF Serves
<1> QED
  BY <1>5, <1>6, <1>7

-----------------------------------------------------------------------------
\* A death reaches everything queued behind it.

\* `schedule` moves no status.
LEMMA ScheduleFollows ==
  ASSUME NEW s \in Tables, NEW x, x = Schedule(s)
  PROVE  x \in Tables /\ Follows(s, x) /\ x.status = s.status
<1> DEFINE V == {y \in Tables : y.status = s.status}
<1>1. s \in V
  OBVIOUS
<1>2. ASSUME NEW y \in V, NEW t \in Task PROVE Offer(y, t) \in V
  <2> DEFINE z == Offer(y, t)
  <2>1. \/ z = y
        \/ IsReady(y, t) /\ z \in Tables /\ \E r \in Runner : IsAssigned(y, z, t, r)
    BY OfferFacts
  <2> HIDE DEF z
  <2>2. z \in V
    BY <2>1 DEF IsAssigned
  <2> QED
    BY <2>2 DEF z
<1> HIDE DEF V
<1>3. x \in V
  BY <1>1, <1>2, ScheduleIn
<1>4. Follows(s, x)
  BY FollowsCarries, FollowsSetIs DEF Carries
<1> QED
  BY <1>3, <1>4 DEF V

\* t has left the queue, or was put back into it by a policy.
Ends(s, x, t) == x.status[t] # "queued" \/ x.requeued[t] > s.requeued[t]

\* Whoever was queued behind a task that died has left the queue or been put back.
Deaths(s, x) ==
  \A d, t \in Task :
    d \in Deps[t] /\ s.status[d] \notin Dead /\ x.status[d] \in Dead /\ s.status[t] = "queued"
      => Ends(s, x, t)

\* `fails` reaches everything queued behind the tasks D.
Buries(fails, D) ==
  \A s, x \in Tables, d \in D : x = fails[<<s, d>>] =>
    Deaths(s, x) /\ \A t \in Blocked(s, d) : Ends(s, x, t)

\* Requeues are only ever added.
LEMMA RequeuedGrows ==
  ASSUME NEW s \in Tables, NEW x \in Tables, Follows(s, x), NEW t \in Task
  PROVE  s.requeued[t] \in Nat /\ x.requeued[t] \in Nat /\ x.requeued[t] >= s.requeued[t]
  BY DEF Follows, Grows, Tables

\* Whoever has ended stays ended while a cascade goes on: a retry puts back only what the
\* cascade itself has failed, and is counted.
LEMMA EndsStays ==
  ASSUME NEW s \in Tables, NEW x \in Tables, NEW y \in Tables, NEW t \in Task,
         Follows(x, y), Ends(s, x, t)
  PROVE  Ends(s, y, t)
<1>1. s.requeued[t] \in Nat
  BY DEF Tables
<1>2. x.requeued[t] \in Nat /\ y.requeued[t] \in Nat /\ y.requeued[t] >= x.requeued[t]
  BY RequeuedGrows
<1>3. x.status[t] # "queued" => y.status[t] # "queued"
  BY DEF Follows, Calm
<1> QED
  BY <1>1, <1>2, <1>3 DEF Ends

\* Whoever ends later has ended since the start: requeues only grow.
LEMMA EndsLater ==
  ASSUME NEW s \in Tables, NEW x \in Tables, NEW y \in Tables, NEW t \in Task,
         Follows(s, x), Ends(x, y, t)
  PROVE  Ends(s, y, t)
<1>1. y.requeued[t] \in Nat
  BY DEF Tables
<1>2. s.requeued[t] \in Nat /\ x.requeued[t] \in Nat /\ x.requeued[t] >= s.requeued[t]
  BY RequeuedGrows
<1> QED
  BY <1>1, <1>2 DEF Ends

\* Deaths one after the other.
LEMMA DeathsTransitive ==
  ASSUME NEW s \in Tables, NEW x \in Tables, NEW y \in Tables,
         Follows(s, x), Deaths(s, x), Follows(x, y), Deaths(x, y)
  PROVE  Deaths(s, y)
<1> SUFFICES ASSUME NEW d \in Task, NEW t \in Task, d \in Deps[t],
                    s.status[d] \notin Dead, y.status[d] \in Dead, s.status[t] = "queued"
             PROVE  Ends(s, y, t)
  BY DEF Deaths
<1>1. CASE x.status[t] # "queued" \/ x.status[d] \in Dead
  <2>1. Ends(s, x, t)
    BY <1>1 DEF Deaths, Ends
  <2> QED
    BY <2>1, EndsStays
<1>2. CASE x.status[t] = "queued" /\ x.status[d] \notin Dead
  <2>1. Ends(x, y, t)
    BY <1>2 DEF Deaths
  <2> QED
    BY <2>1, EndsLater
<1> QED
  BY <1>1, <1>2

\* No death, nothing to reach.
LEMMA NobodyDies ==
  ASSUME NEW s, NEW x, \A d \in Task : s.status[d] \notin Dead => x.status[d] \notin Dead
  PROVE  Deaths(s, x)
  BY DEF Deaths

\* Recording an event moves the task of the event alone.
LEMMA RecordedStatus ==
  ASSUME NEW s \in Tables, NEW t \in Task, NEW e \in Event, e # "requeued",
         s.status[t] # "absent", NEW x, x = Recorded(s, t, e)
  PROVE  /\ x \in Tables
         /\ \A u \in Task : x.status[u] = IF u = t THEN Transition(s.status[t], e) ELSE s.status[u]
         /\ \A u \in Task : x.requeued[u] \in Nat /\ s.requeued[u] \in Nat
                            /\ x.requeued[u] >= s.requeued[u]
<1> DEFINE z == Noted(s, t, e)
<1>1. IsNoted(s, z, t, e) /\ z \in Tables /\ z.runner = s.runner
  BY NotedFacts
<1>2. x \in Tables /\ Follows(z, x)
  BY <1>1, RecordedType, FollowsCarries, RecordedCarries, FollowsSetIs
<1> HIDE DEF z
<1>3. /\ \A u \in Task : z.status[u] = IF u = t THEN Transition(s.status[t], e) ELSE s.status[u]
      /\ z.requeued = s.requeued
  BY <1>1, NotedLeads
<1>4. x.status = z.status
  <2>1. CASE FreesSlot(s, t, e)
    <3> DEFINE y == Freed(z, t)
    <3>1. IsFreed(z, y, t)
      BY <1>1, <2>1, FreedStep DEF FreesSlot
    <3>2. y \in Tables /\ y.status = z.status
      BY <3>1 DEF IsFreed
    <3>3. x = Schedule(y)
      BY <2>1 DEF Recorded, z
    <3> HIDE DEF y
    <3> QED
      BY <3>2, <3>3, ScheduleFollows
  <2>2. CASE ~FreesSlot(s, t, e)
    BY <2>2 DEF Recorded, z
  <2> QED
    BY <2>1, <2>2
<1>5. \A u \in Task : z.requeued[u] \in Nat /\ x.requeued[u] \in Nat
                      /\ x.requeued[u] >= z.requeued[u]
  BY <1>1, <1>2, RequeuedGrows
<1> QED
  BY <1>2, <1>3, <1>4, <1>5

\* A bad ending ends what is queued behind it, and the task itself unless it is
\* queued again.
LEMMA BadEndBuries ==
  ASSUME NEW fails \in Failers, \A x \in Tables, d \in Task : <<x, fails[<<x, d>>]>> \in FollowsSet,
         NEW D \in SUBSET Task, Buries(fails, D), NEW t \in D, t \notin Deps[t],
         NEW s \in Tables, NEW e \in Event, e # "requeued",
         s.status[t] # "absent", ~IsTerminal(s.status[t]),
         Transition(s.status[t], e) \in {"failed", "timed_out", "runner_lost"},
         NEW a, a = ApplyEventWith(s, t, e, fails)
  PROVE  Deaths(s, a) /\ Ends(s, a, t)
<1> DEFINE next == Recorded(s, t, e)
           now == Transition(s.status[t], e)
           y == fails[<<next, t>>]
           into == CandidateExcluding(y, t, y.runner[t])
<1>1. /\ next \in Tables
      /\ \A u \in Task : next.status[u] = IF u = t THEN now ELSE s.status[u]
      /\ \A u \in Task : next.requeued[u] \in Nat /\ s.requeued[u] \in Nat
                         /\ next.requeued[u] >= s.requeued[u]
  BY RecordedStatus
<1>2. y \in Tables /\ Follows(next, y)
  BY <1>1, FollowsSetIs
<1>3. Deaths(next, y) /\ \A u \in Blocked(next, t) : Ends(next, y, u)
  BY <1>1, <1>2 DEF Buries
<1>4. a = MaybeReassign(y, t, now)
  BY DEF ApplyEventWith
<1>5. a = y \/ a = Retry(y, t, into)
  BY <1>4 DEF MaybeReassign
<1>6. into \in Runner \union {NoRunner}
  BY <1>2, CandidateType
<1> HIDE DEF into, y, next, now
<1>7. \A u \in Task : y.requeued[u] \in Nat /\ y.requeued[u] >= next.requeued[u]
  BY <1>1, <1>2, RequeuedGrows
<1>8. /\ \A u \in Task : a.requeued[u] \in Nat /\ a.requeued[u] >= y.requeued[u]
      /\ \A u \in Task : u # t => a.status[u] = y.status[u]
      /\ a = y \/ (a.status[t] = "queued" /\ a.requeued[t] > y.requeued[t])
  <2>1. CASE a = y
    BY <1>7, <2>1
  <2>2. CASE a = Retry(y, t, into)
    <3> DEFINE x == Requeue(y, t, into)
    <3>1. IsRequeued(y, x, t, into) /\ a = Schedule(x)
      BY <1>2, <1>6, <2>2, RequeueStep DEF Retry
    <3>2. x \in Tables
      BY <3>1 DEF IsRequeued
    <3> HIDE DEF x
    <3>3. a \in Tables /\ Follows(x, a) /\ a.status = x.status
      BY <3>1, <3>2, ScheduleFollows
    <3>4. \A u \in Task : a.requeued[u] \in Nat /\ x.requeued[u] \in Nat
                          /\ a.requeued[u] >= x.requeued[u]
      BY <3>2, <3>3, RequeuedGrows
    <3>5. /\ \A u \in Task : x.status[u] = IF u = t THEN "queued" ELSE y.status[u]
          /\ \A u \in Task : x.requeued[u] = IF u = t THEN y.requeued[t] + 1 ELSE y.requeued[u]
      BY <1>2, <3>1 DEF IsRequeued, Tables
    <3> QED
      BY <1>7, <3>3, <3>4, <3>5
  <2> QED
    BY <1>5, <2>1, <2>2
<1>9. Ends(s, a, t)
  <2>1. CASE a = y
    <3>1. y.status[t] # "queued"
      BY <1>1, <1>2 DEF Follows, Calm, now
    <3> QED
      BY <2>1, <3>1 DEF Ends
  <2>2. CASE a # y
    BY <1>1, <1>7, <1>8, <2>2 DEF Ends
  <2> QED
    BY <2>1, <2>2
<1>10. ASSUME NEW u \in Task, u # t, Ends(next, y, u) PROVE Ends(s, a, u)
  BY <1>1, <1>7, <1>8, <1>10 DEF Ends
<1>11. ASSUME NEW d \in Task, NEW u \in Task, d \in Deps[u],
              s.status[d] \notin Dead, a.status[d] \in Dead, s.status[u] = "queued"
       PROVE  Ends(s, a, u)
  <2>1. CASE u = t
    BY <1>9, <2>1
  <2>2. CASE u # t /\ d = t
    <3>1. u \in Blocked(next, t)
      BY <1>1, <1>11, <2>2 DEF Blocked
    <3> QED
      BY <1>3, <1>10, <2>2, <3>1
  <2>3. CASE u # t /\ d # t
    <3>1. next.status[d] \notin Dead /\ y.status[d] \in Dead /\ next.status[u] = "queued"
      BY <1>1, <1>8, <1>11, <2>3
    <3>2. Ends(next, y, u)
      BY <1>3, <1>11, <3>1 DEF Deaths
    <3> QED
      BY <1>10, <2>3, <3>2
  <2> QED
    BY <2>1, <2>2, <2>3
<1> QED
  BY <1>9, <1>11 DEF Deaths

\* `fail_dependents` reaches everything queued behind d, if the level below reaches
\* everything queued behind the tasks that come after d.
LEMMA FailDependentsBury ==
  ASSUME NEW fails \in Failers, \A x \in Tables, d \in Task : <<x, fails[<<x, d>>]>> \in FollowsSet,
         NEW D \in SUBSET Task, Buries(fails, D), \A k \in Task : k \notin Deps[k],
         NEW s \in Tables, NEW d \in Task, \A k \in Task : d \in Deps[k] => k \in D,
         NEW x, x = FailDependents(s, d, fails)
  PROVE  Deaths(s, x) /\ \A t \in Blocked(s, d) : Ends(s, x, t)
<1> DEFINE f == Failing(s, d, fails)
           B == Blocked(s, d)
           P == {k \in 0..Last : /\ f[k] \in Tables
                                 /\ Follows(s, f[k])
                                 /\ Deaths(s, f[k])
                                 /\ \A t \in B : t <= k => Ends(s, f[k], t)}
<1>0. /\ Last \in Nat /\ Task = 1..Last /\ f[0] = s
      /\ \A k \in Task : f[k] = FailNext(f[k - 1], k, B, fails)
  BY LastType, FailingWalk
<1>1. \A k \in B : k \in Task /\ k \in D /\ s.status[k] = "queued" /\ k \in 1..Last
  BY <1>0 DEF Blocked
<1> HIDE DEF f, B
<1>2. 0 \in P
  <2>1. Deaths(s, s)
    BY NobodyDies
  <2>2. \A t \in B : ~(t <= 0)
    BY <1>0, <1>1
  <2> QED
    BY <1>0, <2>1, <2>2, FollowsReflexive
<1>3. ASSUME NEW k \in 1..Last, k - 1 \in P PROVE k \in P
  <2> DEFINE p == f[k - 1]
             q == f[k]
  <2>1. /\ p \in Tables /\ Follows(s, p) /\ Deaths(s, p)
        /\ \A t \in B : t <= k - 1 => Ends(s, p, t)
    BY <1>3
  <2>2. q = FailNext(p, k, B, fails) /\ k \in Task /\ k \in 0..Last
    BY <1>0
  <2> HIDE DEF p, q
  <2>3. CASE k \notin B
    <3>1. q = p
      BY <2>2, <2>3 DEF FailNext
    <3>2. \A t \in B : t <= k => t <= k - 1
      BY <1>0, <1>1, <2>3
    <3> QED
      BY <2>1, <2>2, <3>1, <3>2 DEF q
  <2>4. CASE k \in B
    <3>1. q = ApplyEventWith(p, k, "failed", fails)
      BY <2>2, <2>4 DEF FailNext
    <3>2. "failed" \in Event
      BY DEF Event
    <3>3. s.status[k] = "queued" /\ k \in D /\ p.status[k] \in {"queued", "failed"}
      BY <1>1, <2>1, <2>2, <2>4 DEF Follows, Calm
    <3>4. q \in Tables
      BY <2>1, <2>2, <3>1, <3>2, ApplyEventWithType
    <3>5. Follows(p, q)
      BY <2>1, <2>2, <3>1, <3>3, <3>4, FollowsCarries, FailureCarries, FollowsSetIs
    <3>6. Deaths(p, q) /\ Ends(p, q, k)
      <4>1. CASE p.status[k] = "queued"
        <5>1. ~IsTerminal(p.status[k]) /\ Transition(p.status[k], "failed") = "failed"
          BY <4>1 DEF IsTerminal, Terminal, Transition, Target
        <5> QED
          BY <2>1, <2>2, <3>1, <3>2, <3>3, <4>1, <5>1, BadEndBuries
      <4>2. CASE p.status[k] = "failed"
        <5>1. IsTerminal(p.status[k]) /\ Transition(p.status[k], "failed") = "failed"
          BY <4>2 DEF IsTerminal, Terminal, Transition
        <5>2. q = Recorded(p, k, "failed")
          BY <3>1, <5>1 DEF ApplyEventWith
        <5>3. \A u \in Task : q.status[u] = p.status[u]
          BY <2>1, <2>2, <3>2, <4>2, <5>1, <5>2, RecordedStatus
        <5> QED
          BY <2>2, <4>2, <5>3, NobodyDies DEF Ends
      <4> QED
        BY <3>3, <4>1, <4>2
    <3>7. Follows(s, q) /\ Deaths(s, q)
      BY <2>1, <3>4, <3>5, <3>6, FollowsTransitive, DeathsTransitive
    <3>8. ASSUME NEW t \in B, t <= k PROVE Ends(s, q, t)
      <4>1. CASE t = k
        BY <2>1, <2>2, <3>4, <3>6, <4>1, EndsLater
      <4>2. CASE t # k
        <5>1. t <= k - 1 /\ t \in Task
          BY <1>0, <1>1, <3>8, <4>2
        <5> QED
          BY <2>1, <3>4, <3>5, <5>1, EndsStays
      <4> QED
        BY <4>1, <4>2
    <3> QED
      BY <2>2, <3>4, <3>7, <3>8 DEF q
  <2> QED
    BY <2>3, <2>4
<1>4. Last \in P
  <2> HIDE DEF P
  <2>1. \A k \in 0..Last : k \in P
    BY <1>0, <1>2, <1>3, CountingTo
  <2> QED
    BY <1>0, <2>1
<1>5. x = f[Last]
  BY DEF FailDependents, f
<1>6. Deaths(s, x) /\ \A t \in B : t <= Last => Ends(s, x, t)
  BY <1>4, <1>5
<1>7. \A t \in B : t <= Last
  BY <1>0, <1>1
<1> QED
  BY <1>6, <1>7 DEF B

\* As many levels as there are tasks reach the end of every chain.
LEMMA CascadeBuries == Buries(Cascade[Last], Task) /\ \A k \in Task : k \notin Deps[k]
<1>0. Last \in Nat /\ Task = 1..Last
  BY LastType
<1>1. PICK age \in [Task -> Task] : \A t \in Task : \A d \in Deps[t] : age[d] < age[t]
  BY DepsAreOlder
<1>2. \A t \in Task : age[t] \in Nat /\ age[t] >= 1 /\ age[t] <= Last
  BY <1>0, <1>1
<1>3. \A k \in Task : k \notin Deps[k]
  BY <1>1, <1>2
<1> DEFINE D(n) == {d \in Task : age[d] + n >= Last}
           P == {n \in Nat : Buries(Cascade[n], D(n))}
<1>4. 0 \in P
  <2>1. ASSUME NEW s \in Tables, NEW d \in D(0), NEW t \in Blocked(s, d) PROVE FALSE
    <3>1. t \in Task /\ d \in Deps[t] /\ d \in Task /\ age[d] + 0 >= Last
      BY DEF Blocked
    <3>2. age[d] < age[t]
      BY <1>1, <3>1
    <3> QED
      BY <1>0, <1>2, <3>1, <3>2
  <2>2. \A s \in Tables : Deaths(s, s)
    BY NobodyDies
  <2>3. \A s \in Tables, d \in D(0) : Cascade[0][<<s, d>>] = s
    BY CascadeLevels
  <2> HIDE DEF D
  <2>4. Buries(Cascade[0], D(0))
    BY <2>1, <2>2, <2>3 DEF Buries
  <2> QED
    BY <2>4
<1>5. ASSUME NEW n \in P PROVE n + 1 \in P
  <2>1. n \in Nat /\ Buries(Cascade[n], D(n))
    BY <1>5
  <2>2. Cascade[n] \in Failers
    BY <2>1, CascadeType
  <2>3. \A x \in Tables, d \in Task : <<x, Cascade[n][<<x, d>>]>> \in FollowsSet
    BY <2>1, FollowsCarries, CascadeCarries
  <2>4. ASSUME NEW d \in D(n + 1), NEW k \in Task, d \in Deps[k] PROVE k \in D(n)
    <3>1. age[d] < age[k] /\ age[d] \in Nat /\ age[k] \in Nat /\ age[d] + (n + 1) >= Last
      BY <1>1, <1>2, <2>4
    <3>2. age[k] + n >= Last
      BY <1>0, <2>1, <3>1
    <3> QED
      BY <3>2
  <2>5. D(n) \in SUBSET Task /\ D(n + 1) \in SUBSET Task
    OBVIOUS
  <2> HIDE DEF D
  <2>6. ASSUME NEW s \in Tables, NEW x \in Tables, NEW d \in D(n + 1),
               x = Cascade[n + 1][<<s, d>>]
        PROVE  Deaths(s, x) /\ \A t \in Blocked(s, d) : Ends(s, x, t)
    <3>1. d \in Task /\ x = FailDependents(s, d, Cascade[n])
      BY <2>1, <2>5, <2>6, CascadeLevels
    <3>2. \A k \in Task : d \in Deps[k] => k \in D(n)
      BY <2>4
    <3> QED
      BY <1>3, <2>1, <2>2, <2>3, <2>5, <3>1, <3>2, FailDependentsBury
  <2>7. Buries(Cascade[n + 1], D(n + 1))
    BY <2>6 DEF Buries
  <2> QED
    BY <2>1, <2>7
<1>6. Last \in P
  <2>1. P \in SUBSET Nat
    OBVIOUS
  <2> HIDE DEF P
  <2>2. P = Nat
    BY <1>4, <1>5, <2>1, Counting
  <2> QED
    BY <1>0, <2>2
<1>7. D(Last) = Task
  BY <1>0, <1>2
<1> QED
  BY <1>3, <1>6, <1>7

\* `apply_event` reaches everything queued behind whatever died in it.
LEMMA EventDeaths ==
  ASSUME NEW s \in Tables, NEW t \in Task, NEW e \in Event, e # "requeued",
         s.status[t] # "absent", NEW a, a = ApplyEvent(s, t, e)
  PROVE  Deaths(s, a)
<1> DEFINE fails == Cascade[Last]
           next == Recorded(s, t, e)
           now == Transition(s.status[t], e)
           y == fails[<<next, t>>]
<1>0. /\ fails \in Failers /\ Buries(fails, Task) /\ t \notin Deps[t]
      /\ \A x \in Tables, d \in Task : <<x, fails[<<x, d>>]>> \in FollowsSet
  BY CascadeType, LastType, CascadeBuries, FollowsCarries, CascadeCarries
<1>1. /\ next \in Tables
      /\ \A u \in Task : next.status[u] = IF u = t THEN now ELSE s.status[u]
      /\ \A u \in Task : next.requeued[u] \in Nat /\ s.requeued[u] \in Nat
                         /\ next.requeued[u] >= s.requeued[u]
  BY RecordedStatus
<1>2. a = ApplyEventWith(s, t, e, fails)
  BY DEF ApplyEvent
<1> HIDE DEF fails
<1>3. CASE IsTerminal(s.status[t])
  <2>1. a = next /\ now = s.status[t]
    BY <1>2, <1>3 DEF ApplyEventWith, Transition
  <2> QED
    BY <1>1, <2>1, NobodyDies
<1>4. CASE ~IsTerminal(s.status[t]) /\ now \in {"failed", "timed_out", "runner_lost"}
  BY <1>0, <1>2, <1>4, BadEndBuries
<1>5. CASE ~IsTerminal(s.status[t]) /\ now \in {"cancelled", "rejected"}
  <2>1. a = y
    BY <1>2, <1>5 DEF ApplyEventWith
  <2>2. y \in Tables /\ Follows(next, y)
    BY <1>0, <1>1, FollowsSetIs
  <2>3. Deaths(next, y) /\ \A u \in Blocked(next, t) : Ends(next, y, u)
    BY <1>0, <1>1, <2>2 DEF Buries
  <2> HIDE DEF next, y, now
  <2>4. \A u \in Task : y.requeued[u] \in Nat
    BY <2>2 DEF Tables
  <2>5. ASSUME NEW u \in Task, Ends(next, y, u) PROVE Ends(s, y, u)
    BY <1>1, <2>4, <2>5 DEF Ends
  <2>6. ASSUME NEW d \in Task, NEW u \in Task, d \in Deps[u],
               s.status[d] \notin Dead, y.status[d] \in Dead, s.status[u] = "queued"
        PROVE  Ends(s, y, u)
    <3>1. CASE u = t
      <4>1. y.status[t] # "queued"
        BY <1>1, <1>5, <2>2 DEF Follows, Calm
      <4> QED
        BY <3>1, <4>1 DEF Ends
    <3>2. CASE u # t /\ d = t
      <4>1. u \in Blocked(next, t)
        BY <1>1, <2>6, <3>2 DEF Blocked
      <4> QED
        BY <2>3, <2>5, <4>1
    <3>3. CASE u # t /\ d # t
      <4>1. Ends(next, y, u)
        BY <1>1, <2>3, <2>6, <3>3 DEF Deaths
      <4> QED
        BY <2>5, <4>1
    <3> QED
      BY <3>1, <3>2, <3>3
  <2> QED
    BY <2>1, <2>6 DEF Deaths
<1>6. CASE /\ ~IsTerminal(s.status[t])
           /\ now \notin {"failed", "timed_out", "runner_lost", "cancelled", "rejected"}
  <2>1. a \in {next, Schedule(next)}
    BY <1>2, <1>6 DEF ApplyEventWith
  <2>2. a.status = next.status
    BY <1>1, <2>1, ScheduleFollows
  <2>3. now \notin Dead
    BY <1>6 DEF Dead
  <2> HIDE DEF next, now
  <2> QED
    BY <1>1, <2>2, <2>3, NobodyDies
<1> QED
  BY <1>3, <1>4, <1>5, <1>6

-----------------------------------------------------------------------------
\* Losing a runner's tasks.

\* What is lost was there and had not ended; it is queued again or has ended badly.
Sinks(s, x) ==
  \A u \in Task :
    \/ x.status[u] = s.status[u]
    \/ /\ s.status[u] # "absent" /\ ~IsTerminal(s.status[u])
       /\ x.status[u] \in {"queued", "failed", "runner_lost"}

\* What losing tasks does to the tables, to those that were lost and to the others.
Loses(s, x) ==
  /\ Sinks(s, x)
  /\ x.created = s.created /\ x.link = s.link
  /\ s.asked \subseteq x.asked
  /\ s.changed \subseteq x.changed
  /\ \A u \in Task : x.status[u] # s.status[u] => u \in x.changed
  /\ \A u \in Task : x.requeued[u] >= s.requeued[u]
  /\ Sound(s) => Sound(x)
  /\ Sound(s) /\ Served(s) => Served(x)
  /\ Unheld(x) \subseteq Unheld(s)
  /\ HandsOut(s, x)
  /\ Fits(s, x)
  /\ Deaths(s, x)

\* It holds of losing nothing,
LEMMA LosesReflexive ==
  ASSUME NEW s \in Tables
  PROVE  Loses(s, s)
<1>1. \A u \in Task : s.requeued[u] >= s.requeued[u]
  BY DEF Tables
<1>2. Deaths(s, s)
  BY NobodyDies
<1> QED
  BY <1>1, <1>2 DEF Loses, Sinks, HandsOut, Fits

\* of losing more,
LEMMA LosesTransitive ==
  ASSUME NEW s \in Tables, NEW x \in Tables, NEW y \in Tables, Loses(s, x), Loses(x, y)
  PROVE  Loses(s, y)
<1>1. Sinks(s, y)
  BY DEF Loses, Sinks, IsTerminal, Terminal
<1>2. HandsOut(s, y)
  <2> SUFFICES ASSUME NEW r \in Runner, NEW t \in Task,
                      <<"run", r, t>> \in y.asked, <<"run", r, t>> \notin s.asked,
                      NEW d \in Deps[t]
               PROVE  Met(Needs[t], s.status[d])
    BY DEF HandsOut, DepsMetIn
  <2>0. d \in Task /\ Needs[t] \in Condition
    BY SpecsAreTyped
  <2>1. CASE <<"run", r, t>> \in x.asked
    BY <2>1 DEF Loses, HandsOut, DepsMetIn
  <2>2. CASE <<"run", r, t>> \notin x.asked
    <3>1. Met(Needs[t], x.status[d])
      BY <2>2 DEF Loses, HandsOut, DepsMetIn
    <3> QED
      BY <2>0, <3>1 DEF Loses, Sinks, Met, Condition
  <2> QED
    BY <2>1, <2>2
<1>3. Fits(s, y)
  BY FitsTransitive DEF Loses
<1>4. \A u \in Task : y.status[u] # s.status[u] => u \in y.changed
  BY DEF Loses
<1>5. \A u \in Task : /\ s.requeued[u] \in Nat /\ x.requeued[u] \in Nat /\ y.requeued[u] \in Nat
                      /\ x.requeued[u] >= s.requeued[u] /\ y.requeued[u] >= x.requeued[u]
  BY DEF Loses, Tables
<1>6. Deaths(s, y)
  <2> SUFFICES ASSUME NEW d \in Task, NEW t \in Task, d \in Deps[t],
                      s.status[d] \notin Dead, y.status[d] \in Dead, s.status[t] = "queued"
               PROVE  Ends(s, y, t)
    BY DEF Deaths
  <2>1. CASE x.status[t] # "queued"
    <3>1. x.status[t] \in {"failed", "runner_lost"}
      BY <2>1 DEF Loses, Sinks
    <3>2. y.status[t] = x.status[t]
      BY <3>1 DEF Loses, Sinks, IsTerminal, Terminal
    <3> QED
      BY <2>1, <3>2 DEF Ends
  <2>2. CASE x.status[t] = "queued" /\ x.status[d] \in Dead
    <3>1. x.requeued[t] > s.requeued[t]
      BY <2>2 DEF Loses, Deaths, Ends
    <3> QED
      BY <1>5, <3>1 DEF Ends
  <2>3. CASE x.status[t] = "queued" /\ x.status[d] \notin Dead
    <3>1. y.status[t] # "queued" \/ y.requeued[t] > x.requeued[t]
      BY <2>3 DEF Loses, Deaths, Ends
    <3> QED
      BY <1>5, <3>1 DEF Ends
  <2> QED
    BY <2>1, <2>2, <2>3
<1>7. ASSUME NEW u \in Task PROVE y.requeued[u] >= s.requeued[u]
  <2> DEFINE m == s.requeued[u]
             n == x.requeued[u]
             l == y.requeued[u]
  <2>1. m \in Nat /\ n \in Nat /\ l \in Nat /\ n >= m /\ l >= n
    BY <1>5
  <2> HIDE DEF m, n, l
  <2>2. l >= m
    BY <2>1
  <2> QED
    BY <2>2 DEF m, l
<1>8. /\ Sound(s) => Sound(y)
      /\ Sound(s) /\ Served(s) => Served(y)
  BY DEF Loses
<1> QED
  BY <1>1, <1>2, <1>3, <1>4, <1>6, <1>7, <1>8 DEF Loses

\* of losing one task,
LEMMA LoseUnfinishedLoses ==
  ASSUME NEW s \in Tables, NEW t \in Task, s.status[t] # "absent",
         NEW x, x = LoseUnfinished(s, t)
  PROVE  x \in Tables /\ Loses(s, x) /\ t \notin Unheld(x)
<1>1. CASE IsTerminal(s.status[t])
  <2>1. x = s /\ s.status[t] # "queued"
    BY <1>1 DEF LoseUnfinished, IsTerminal, Terminal
  <2> QED
    BY <2>1, LosesReflexive DEF Unheld
<1>2. CASE ~IsTerminal(s.status[t])
  <2>1. x = ApplyEvent(s, t, "runner_lost")
    BY <1>2 DEF LoseUnfinished
  <2>2. "runner_lost" \in Event
    BY DEF Event
  <2>3. x \in Tables /\ Leads(s, x, t, "runner_lost")
    BY <2>1, <2>2, EventLeads
  <2>4. Transition(s.status[t], "runner_lost") = "runner_lost"
    BY <1>2 DEF Transition, Target
  <2>5. Sinks(s, x)
    <3> SUFFICES ASSUME NEW u \in Task, x.status[u] # s.status[u]
                 PROVE  /\ s.status[u] # "absent" /\ ~IsTerminal(s.status[u])
                        /\ x.status[u] \in {"queued", "failed", "runner_lost"}
      BY DEF Sinks
    <3>1. CASE u = t
      BY <1>2, <2>3, <2>4, <3>1 DEF Leads
    <3>2. CASE u # t
      <4>1. s.status[u] = "queued" /\ x.status[u] = "failed"
        BY <2>3, <3>2 DEF Leads
      <4> QED
        BY <4>1 DEF IsTerminal, Terminal
    <3> QED
      BY <3>1, <3>2
  <2>6. HandsOut(s, x)
    <3> SUFFICES ASSUME NEW r \in Runner, NEW u \in Task,
                        <<"run", r, u>> \in x.asked, <<"run", r, u>> \notin s.asked,
                        NEW d \in Deps[u]
                 PROVE  Met(Needs[u], s.status[d])
      BY DEF HandsOut, DepsMetIn
    <3>0. d \in Task /\ Needs[u] \in Condition
      BY SpecsAreTyped
    <3>1. Met(Needs[u], s.status[d]) \/ Met(Needs[u], x.status[d])
      BY <2>3 DEF Leads
    <3> QED
      BY <2>5, <3>0, <3>1 DEF Sinks, Met, Condition
  <2>7. Deaths(s, x) /\ (Sound(s) /\ Served(s) => Served(x))
    BY <2>1, <2>2, EventDeaths, EventServes
  <2> QED
    BY <2>3, <2>5, <2>6, <2>7 DEF Leads, Loses
<1> QED
  BY <1>1, <1>2

\* Losing a task leaves tables.
LEMMA LoseUnfinishedType ==
  ASSUME NEW s \in Tables, NEW t \in Task
  PROVE  LoseUnfinished(s, t) \in Tables
  BY ApplyEventType DEF LoseUnfinished, Event

\* The rounds of the loop over the tasks that are lost.
LEMMA LosingWalk ==
  ASSUME NEW s \in Tables, NEW order \in Seq(Task)
  PROVE  /\ Len(order) \in Nat
         /\ Losing(s, order)[0] = s
         /\ \A k \in 1..Len(order) :
              /\ order[k] \in Task
              /\ Losing(s, order)[k] = LoseUnfinished(Losing(s, order)[k - 1], order[k])
<1> DEFINE n == Len(order)
<1>1. n \in Nat /\ \A k \in 1..n : order[k] \in Task
  OBVIOUS
<1> DEFINE H == [k \in 1..n |-> [x \in Tables |-> LoseUnfinished(x, order[k])]]
<1>2. H \in [1..n -> [Tables -> Tables]]
  BY <1>1, LoseUnfinishedType
<1>3. \A k \in 1..n, x \in Tables : H[k][x] = LoseUnfinished(x, order[k])
  OBVIOUS
<1> HIDE DEF n, H
<1>4. PICK f \in [0..n -> Tables] : IsWalk(f, n, s, H)
  BY <1>1, <1>2, Walks
<1>5. f = [k \in 0..n |-> IF k = 0 THEN s ELSE LoseUnfinished(f[k - 1], order[k])]
  <2>1. \A k \in 0..n : k # 0 => k \in 1..n /\ k - 1 \in 0..n
    BY <1>1
  <2>2. \A k \in 0..n : k # 0 => H[k][f[k - 1]] = LoseUnfinished(f[k - 1], order[k])
    BY <2>1, <1>3
  <2> QED
    BY <1>4, <2>2 DEF IsWalk
<1>6. Losing(s, order) =
        [k \in 0..n |-> IF k = 0 THEN s ELSE LoseUnfinished(Losing(s, order)[k - 1], order[k])]
  <2> DEFINE g == CHOOSE h :
               h = [k \in 0..n |-> IF k = 0 THEN s ELSE LoseUnfinished(h[k - 1], order[k])]
  <2>1. Losing(s, order) = g
    BY DEF Losing, n
  <2>2. g = [k \in 0..n |-> IF k = 0 THEN s ELSE LoseUnfinished(g[k - 1], order[k])]
    BY <1>5
  <2> QED
    BY <2>1, <2>2
<1>7. \A k \in 0..n :
        Losing(s, order)[k] = IF k = 0 THEN s ELSE LoseUnfinished(Losing(s, order)[k - 1], order[k])
  BY <1>6
<1> QED
  BY <1>1, <1>7 DEF n

\* An order of a set of tasks is a sequence that has them all.
LEMMA OrdersAre ==
  ASSUME NEW S \in SUBSET Task, NEW order \in Orders(S)
  PROVE  /\ order \in Seq(Task) /\ order \in Seq(S)
         /\ \A t \in S : \E k \in 1..Len(order) : order[k] = t
<1>1. IsFiniteSet(Task)
  BY TasksAreNumbers
<1>2. Cardinality(S) \in Nat
  BY <1>1, FS_Subset, FS_CardinalityType
<1>3. order \in [1..Cardinality(S) -> S]
  BY DEF Orders
<1>4. order \in Seq(S) /\ Len(order) = Cardinality(S)
  BY <1>2, <1>3
<1>5. order \in Seq(Task)
  BY <1>2, <1>3
<1> QED
  BY <1>4, <1>5 DEF Orders

\* and of losing all of S, after which none of S is assigned and held by nobody.
LEMMA LoseAllLoses ==
  ASSUME NEW s \in Tables, NEW S \in SUBSET Task, NEW order \in Orders(S),
         \A t \in S : s.status[t] # "absent",
         NEW x, x = LoseAll(s, order)
  PROVE  x \in Tables /\ Loses(s, x) /\ Unheld(x) \subseteq Unheld(s) \ S
<1> DEFINE n == Len(order)
           f == Losing(s, order)
           P == {k \in 0..n : /\ f[k] \in Tables
                              /\ Loses(s, f[k])
                              /\ \A j \in 1..k : order[j] \notin Unheld(f[k])}
<1>1. /\ n \in Nat /\ f[0] = s
      /\ \A k \in 1..n : order[k] \in Task /\ f[k] = LoseUnfinished(f[k - 1], order[k])
  BY OrdersAre, LosingWalk
<1>2. \A k \in 1..n : order[k] \in S
  BY OrdersAre
<1> HIDE DEF n, f
<1>3. 0 \in P
  BY <1>1, LosesReflexive
<1>4. ASSUME NEW k \in 1..n, k - 1 \in P PROVE k \in P
  <2> DEFINE u == order[k]
             y == f[k - 1]
             z == f[k]
  <2>1. u \in Task /\ z = LoseUnfinished(y, u) /\ s.status[u] # "absent"
    BY <1>1, <1>2
  <2>2. y \in Tables /\ Loses(s, y) /\ \A j \in 1..(k - 1) : order[j] \notin Unheld(y)
    BY <1>4
  <2>3. k \in 0..n /\ \A j \in 1..k : j = k \/ j \in 1..(k - 1)
    BY <1>1
  <2> HIDE DEF y, z
  <2>4. y.status[u] # "absent"
    BY <2>1, <2>2 DEF Loses, Sinks
  <2>5. z \in Tables /\ Loses(y, z) /\ u \notin Unheld(z)
    BY <2>1, <2>2, <2>4, LoseUnfinishedLoses
  <2>6. Loses(s, z)
    BY <2>2, <2>5, LosesTransitive
  <2>7. \A j \in 1..k : order[j] \notin Unheld(z)
    BY <2>2, <2>3, <2>5 DEF Loses
  <2> QED
    BY <2>3, <2>5, <2>6, <2>7 DEF z
<1>5. n \in P
  <2> HIDE DEF P
  <2>1. \A k \in 0..n : k \in P
    BY <1>1, <1>3, <1>4, CountingTo
  <2> QED
    BY <1>1, <2>1
<1>6. x = f[n]
  BY DEF LoseAll, f, n
<1>7. x \in Tables /\ Loses(s, x) /\ \A j \in 1..n : order[j] \notin Unheld(x)
  BY <1>5, <1>6
<1>8. \A t \in S : t \notin Unheld(x)
  BY <1>7, OrdersAre DEF n
<1> QED
  BY <1>7, <1>8 DEF Loses

-----------------------------------------------------------------------------
\* What a handler does to the tables.

\* The steps of a plan exist only once it is approved.
StepsWait(s) ==
  \A p \in Task : \A t \in StepsOf(p) :
    s.status[p] \notin {"approved", "merged"} => s.status[t] = "absent"

\* What holds of the tables between two handlers.
Good(s) == s \in Tables /\ Sound(s) /\ Unheld(s) = {} /\ StepsWait(s)

\* Every task moves as the lifecycle allows.
Moves(s, x) == \A t \in Task : x.status[t] \in Lifecycle!After(s.status[t])

\* What is handed out had its dependencies met, before the handler or after it.
HandsOver(s, x) ==
  \A r \in Runner, t \in Task :
    <<"run", r, t>> \in x.asked /\ <<"run", r, t>> \notin s.asked =>
      \A d \in Deps[t] : Met(Needs[t], s.status[d]) \/ Met(Needs[t], x.status[d])

\* Whoever is newly on a runner found a free slot there.
FindsSlots(s, x) ==
  \A t \in Task, r \in Runner :
    x.runner[t] = r /\ s.runner[t] # r => Cardinality(x.running[r]) <= Slots[r]

\* What a handler that starts from the tables s and ends with x has kept.
Handles(s, x) ==
  /\ Good(x)
  /\ Moves(s, x)
  /\ s.asked \subseteq x.asked
  /\ \A t \in Task : x.status[t] # s.status[t] => t \in x.changed
  /\ HandsOver(s, x)
  /\ FindsSlots(s, x)

\* A handler that creates no task leaves the steps of the other plans waiting.
LEMMA StepsKeepWaiting ==
  ASSUME NEW s \in Tables, NEW x \in Tables, StepsWait(s), Moves(s, x),
         \A t \in Children : s.status[t] = "absent" => x.status[t] = "absent"
  PROVE  StepsWait(x)
<1> SUFFICES ASSUME NEW p \in Task, NEW t \in StepsOf(p),
                    x.status[p] \notin {"approved", "merged"}
             PROVE  x.status[t] = "absent"
  BY DEF StepsWait
<1>1. s.status[p] \notin {"approved", "merged"}
  BY DEF Moves, Lifecycle!After, Lifecycle!Retryable, Lifecycle!Status
<1>2. s.status[t] = "absent" /\ t \in Children
  BY <1>1 DEF StepsWait, Children
<1> QED
  BY <1>2

\* An event, handled.
LEMMA EventHandles ==
  ASSUME NEW s, Good(s), NEW t \in Task, NEW e \in Event, e # "requeued",
         s.status[t] # "absent", NEW a, a = ApplyEvent(s, t, e)
  PROVE  Handles(s, a)
<1>0. s \in Tables
  BY DEF Good
<1>1. a \in Tables /\ Leads(s, a, t, e)
  BY <1>0, EventLeads
<1>2. Moves(s, a)
  <2> SUFFICES ASSUME NEW u \in Task PROVE a.status[u] \in Lifecycle!After(s.status[u])
    BY DEF Moves
  <2>0. s.status[u] \in Status \union {"absent"}
    BY <1>0 DEF Tables
  <2>1. CASE a.status[u] = s.status[u]
    BY <2>0, <2>1 DEF Lifecycle!After, Lifecycle!Status, Lifecycle!Retryable, Status
  <2>2. CASE s.status[u] = "queued" /\ a.status[u] = "failed"
    BY <2>2 DEF Lifecycle!After, Lifecycle!Status, Lifecycle!Retryable, Status
  <2>3. CASE u = t /\ ~IsTerminal(s.status[t])
    <3>1. Lifecycle!After(s.status[t]) = Status \ {"merged"}
      BY <2>0, <2>3 DEF Lifecycle!After, Lifecycle!Status, Lifecycle!Retryable, IsTerminal, Terminal, Status
    <3>2. a.status[t] \in {Target(e), "queued", "failed"}
      BY <1>1, <2>3 DEF Leads, Transition
    <3>3. Target(e) \in Status \ {"merged"}
      BY DEF Target, Event, Status
    <3> QED
      BY <2>3, <3>1, <3>2, <3>3 DEF Status
  <2>4. CASE u = t /\ IsTerminal(s.status[t])
    BY <1>1, <2>1, <2>4 DEF Leads, Transition
  <2> QED
    BY <1>1, <2>1, <2>2, <2>3, <2>4 DEF Leads
<1>3. \A u \in Task : s.status[u] = "absent" => a.status[u] = "absent"
  BY <1>1 DEF Leads
<1>4. StepsWait(a)
  <2>1. Children \subseteq Task
    BY ParametersAreTyped DEF Children, StepsOf
  <2> QED
    BY <1>0, <1>1, <1>2, <1>3, <2>1, StepsKeepWaiting DEF Good
<1>5. Good(a)
  BY <1>1, <1>4 DEF Good, Leads
<1>6. HandsOver(s, a)
  BY <1>1 DEF Leads, HandsOver
<1>7. FindsSlots(s, a)
  BY <1>1 DEF Leads, Fits, FindsSlots
<1> QED
  BY <1>1, <1>2, <1>5, <1>6, <1>7 DEF Handles, Leads

-----------------------------------------------------------------------------
\* The invariant.

\* The stored copy of a task is current, or is that of a queued task whose cascade
\* was not persisted; its runner too is one that its spec allows and that was told.
DiskFollows ==
  \A t \in Task :
    /\ disk[t].status = status[t] \/ (disk[t].status = "queued" /\ status[t] = "failed")
    /\ disk[t].runner # NoRunner =>
         disk[t].pin \in {NoRunner, disk[t].runner} /\ <<"run", disk[t].runner, t>> \in asked

\* The invariant: every handler starts from this and leaves it.
IInv == TablesTyped /\ Good(Now) /\ Served(Now) /\ DiskFollows

\* What AssignmentsFitSlots says of one step.
SlotsRespected ==
  \A t \in Task, r \in Runner :
    /\ runner'[t] = r /\ runner[t] # r
    => Cardinality(running'[r]) <= Slots[r]

\* The fields of Now.
LEMMA NowIs ==
  /\ Now.created = created /\ Now.status = status /\ Now.runner = runner /\ Now.pin = pin
  /\ Now.result = result /\ Now.requeued = requeued /\ Now.link = link
  /\ Now.running = running /\ Now.asked = asked /\ Now.changed = {}
  BY DEF Now

\* The variables make tables.
LEMMA NowTyped == TablesTyped => Now \in Tables
  BY DEF TablesTyped, Now, Tables

\* Good looks at neither results, requeues nor what changed,
LEMMA SameGood ==
  ASSUME NEW x, Good(x), NEW y \in Tables,
         y.created = x.created, y.status = x.status, y.runner = x.runner, y.pin = x.pin,
         y.link = x.link, y.running = x.running, y.asked = x.asked
  PROVE  Good(y)
  BY DEF Good, Sound, Unheld, StepsWait

\* A handler that persists what it changed.
LEMMA SavedTables ==
  ASSUME IInv, NEW x, NEW ids \in SUBSET Task, Save(x, ids), Good(x)
  PROVE  TablesTyped' /\ Good(Now)'
<1>1. /\ created' = x.created /\ status' = x.status /\ runner' = x.runner /\ pin' = x.pin
      /\ result' = x.result /\ requeued' = x.requeued /\ link' = x.link
      /\ running' = x.running /\ asked' = x.asked
      /\ disk' = [t \in Task |-> IF t \in ids THEN Stored(x, t) ELSE disk[t]]
  BY DEF Save
<1>2. x \in Tables
  BY DEF Good
<1>3. disk' \in [Task -> Record]
  <2>1. \A t \in Task : Stored(x, t) \in Record
    BY <1>2 DEF Stored, Record, Tables
  <2>2. disk \in [Task -> Record]
    BY DEF IInv, TablesTyped
  <2> QED
    BY <1>1, <2>1, <2>2
<1>4. \A r \in Runner : x.link[r] = "absent" => x.running[r] = {}
  BY DEF Good, Sound
<1>5. TablesTyped'
  BY <1>1, <1>2, <1>3, <1>4 DEF TablesTyped, Tables
<1>6. Now' \in Tables
  BY <1>1, <1>2 DEF Now, Tables
<1>7. /\ Now'.created = x.created /\ Now'.status = x.status /\ Now'.runner = x.runner
      /\ Now'.pin = x.pin /\ Now'.link = x.link /\ Now'.running = x.running
      /\ Now'.asked = x.asked
  BY <1>1 DEF Now
<1>8. Good(Now')
  BY <1>6, <1>7, SameGood
<1> QED
  BY <1>5, <1>8

\* Served at neither the log nor what was asked.
LEMMA SameServed ==
  ASSUME NEW x, Served(x), NEW y,
         y.status = x.status, y.runner = x.runner, y.pin = x.pin, y.result = x.result,
         y.link = x.link, y.running = x.running
  PROVE  Served(y)
<1>1. OverDailyBudget(y) <=> OverDailyBudget(x)
  BY DEF OverDailyBudget
<1>2. ASSUME NEW t \in Task
      PROVE  /\ IsReady(y, t) <=> IsReady(x, t)
             /\ Undecided(y, t) <=> Undecided(x, t)
             /\ Fit(y, t, NoRunner) = Fit(x, t, NoRunner)
  BY DEF IsReady, Undecided, Fit, CanRun, IsConnected, FreeSlots
<1> QED
  BY <1>1, <1>2 DEF Served

\* Nobody waits after the step who does not in the tables it saves.
LEMMA SavedServed ==
  ASSUME NEW x, NEW ids, Save(x, ids), Served(x)
  PROVE  Served(Now)'
<1>1. /\ status' = x.status /\ runner' = x.runner /\ pin' = x.pin /\ result' = x.result
      /\ link' = x.link /\ running' = x.running
  BY DEF Save
<1>2. /\ Now'.status = x.status /\ Now'.runner = x.runner /\ Now'.pin = x.pin
      /\ Now'.result = x.result /\ Now'.link = x.link /\ Now'.running = x.running
  BY <1>1 DEF Now
<1>3. Served(Now')
  BY <1>2, SameServed
<1> QED
  BY <1>3

\* What DeathEndsDependents says of one step.
DeathsFollowed ==
  \A d, t \in Task :
    /\ d \in Deps[t]
    /\ status[d] \notin Dead /\ status'[d] \in Dead
    /\ status[t] = "queued" /\ status'[t] = "queued"
    => requeued'[t] > requeued[t]

\* The step reaches the dependents that its tables reach.
LEMMA SavedDeaths ==
  ASSUME NEW x, NEW ids, Save(x, ids), Deaths(Now, x)
  PROVE  DeathsFollowed
<1>1. status' = x.status /\ requeued' = x.requeued
  BY DEF Save
<1> QED
  BY <1>1, NowIs DEF Deaths, Ends, DeathsFollowed

\* What is stored of a task, whoever stores it.
LEMMA SavedDisk ==
  ASSUME IInv, NEW x, NEW ids \in SUBSET Task, Save(x, ids), Good(x),
         asked \subseteq x.asked,
         \A t \in Task \ ids : \/ x.status[t] = status[t]
                               \/ status[t] = "queued" /\ x.status[t] = "failed"
  PROVE  DiskFollows'
<1>1. /\ status' = x.status /\ asked' = x.asked
      /\ disk' = [t \in Task |-> IF t \in ids THEN Stored(x, t) ELSE disk[t]]
  BY DEF Save
<1> SUFFICES ASSUME NEW t \in Task
             PROVE  /\ \/ disk'[t].status = status'[t]
                       \/ disk'[t].status = "queued" /\ status'[t] = "failed"
                    /\ disk'[t].runner # NoRunner =>
                         /\ disk'[t].pin \in {NoRunner, disk'[t].runner}
                         /\ <<"run", disk'[t].runner, t>> \in asked'
  BY DEF DiskFollows
<1>2. CASE t \in ids
  <2>1. disk'[t] = Stored(x, t)
    BY <1>1, <1>2
  <2>2. /\ disk'[t].status = x.status[t] /\ disk'[t].runner = x.runner[t]
        /\ disk'[t].pin = x.pin[t]
    BY <2>1 DEF Stored
  <2> QED
    BY <1>1, <2>2 DEF Good, Sound
<1>3. CASE t \notin ids
  <2>1. disk'[t] = disk[t]
    BY <1>1, <1>3
  <2>2. /\ disk[t].status = status[t] \/ (disk[t].status = "queued" /\ status[t] = "failed")
        /\ disk[t].runner # NoRunner =>
             disk[t].pin \in {NoRunner, disk[t].runner} /\ <<"run", disk[t].runner, t>> \in asked
    BY DEF IInv, DiskFollows
  <2>3. x.status[t] = status[t] \/ (status[t] = "queued" /\ x.status[t] = "failed")
    BY <1>3
  <2> QED
    BY <1>1, <2>1, <2>2, <2>3
<1> QED
  BY <1>2, <1>3

\* The tasks that were handed out, before and after a handler.
LEMMA SavedLifecycle ==
  ASSUME IInv, NEW x, NEW ids, Save(x, ids), Handles(Now, x)
  PROVE  Lifecycle!Next /\ SlotsRespected
<1>1. status' = x.status /\ asked' = x.asked /\ runner' = x.runner /\ running' = x.running
  BY DEF Save
<1>2. x \in Tables
  BY DEF Handles, Good
<1>3. Lifecycle!Move
  <2>1. \A t \in Task : status'[t] \in Lifecycle!After(status[t])
    BY <1>1, NowIs DEF Handles, Moves
  <2>2. status' \in [Task -> Lifecycle!Status \union {"absent"}]
    BY <1>1, <1>2 DEF Tables, Status, Lifecycle!Status
  <2> QED
    BY <2>1, <2>2 DEF Lifecycle!Move
<1>4. Lifecycle!HandOut
  <2> DEFINE Handed(q) == {t \in Task : \E r \in Runner : <<"run", r, t>> \in q}
  <2>1. Handed(asked) \subseteq Handed(asked')
    BY <1>1, NowIs DEF Handles
  <2>2. ASSUME NEW t \in Handed(asked') \ Handed(asked), NEW d \in Deps[t]
        PROVE  Met(Needs[t], status[d]) \/ Met(Needs[t], status'[d])
    <3>1. PICK r \in Runner : <<"run", r, t>> \in asked' /\ <<"run", r, t>> \notin asked
      BY <2>2
    <3> QED
      BY <1>1, <2>2, <3>1, NowIs DEF Handles, HandsOver
  <2>3. \A c, st : Lifecycle!Met(c, st) = Met(c, st)
    BY DEF Met, Lifecycle!Met
  <2> QED
    BY <2>1, <2>2, <2>3 DEF Lifecycle!HandOut
<1>5. SlotsRespected
  BY <1>1, NowIs DEF Handles, FindsSlots, SlotsRespected
<1> QED
  BY <1>3, <1>4, <1>5 DEF Lifecycle!Next

\* What a handler has kept of the tables, the step keeps of the variables.
LEMMA Committed ==
  ASSUME IInv, NEW x, Commit(x), Handles(Now, x), Served(x)
  PROVE  /\ IInv' /\ Lifecycle!Next /\ SlotsRespected
         /\ Deaths(Now, x) => DeathsFollowed
<1>1. Save(x, x.changed) /\ Good(x)
  BY DEF Commit, Handles
<1>2. x.changed \in SUBSET Task
  BY <1>1 DEF Good, Tables
<1>3. asked \subseteq x.asked /\ \A t \in Task \ x.changed : x.status[t] = status[t]
  BY NowIs DEF Handles
<1>4. TablesTyped' /\ Good(Now)'
  BY <1>1, <1>2, SavedTables
<1>5. DiskFollows'
  BY <1>1, <1>2, <1>3, SavedDisk
<1>6. Lifecycle!Next /\ SlotsRespected
  BY <1>1, SavedLifecycle
<1>7. Served(Now)'
  BY <1>1, SavedServed
<1>8. Deaths(Now, x) => DeathsFollowed
  BY <1>1, SavedDeaths
<1> QED
  BY <1>4, <1>5, <1>6, <1>7, <1>8 DEF IInv

-----------------------------------------------------------------------------
\* The parts that handlers are made of.

\* Doing nothing keeps everything.
LEMMA HandlesReflexive ==
  ASSUME NEW s, Good(s)
  PROVE  Handles(s, s)
<1>1. s \in Tables
  BY DEF Good
<1>2. Moves(s, s)
  <2> SUFFICES ASSUME NEW t \in Task PROVE s.status[t] \in Lifecycle!After(s.status[t])
    BY DEF Moves
  <2>1. s.status[t] \in Status \union {"absent"}
    BY <1>1 DEF Tables
  <2> QED
    BY <2>1 DEF Lifecycle!After, Lifecycle!Status, Lifecycle!Retryable, Status
<1> QED
  BY <1>2 DEF Handles, HandsOver, FindsSlots

\* Every handler may end with `schedule`.
LEMMA ScheduledHandles ==
  ASSUME NEW s, NEW y, Handles(s, y), NEW x, x = Schedule(y)
  PROVE  Handles(s, x)
<1>1. y \in Tables /\ Sound(y) /\ Unheld(y) = {} /\ StepsWait(y)
  BY DEF Handles, Good
<1>2. x \in Tables /\ Follows(y, x) /\ x.status = y.status
  BY <1>1, ScheduleFollows
<1>3. Good(x)
  BY <1>1, <1>2 DEF Good, Follows, StepsWait
<1>4. Moves(s, x)
  BY <1>2 DEF Handles, Moves
<1>5. /\ s.asked \subseteq x.asked
      /\ \A t \in Task : x.status[t] # s.status[t] => t \in x.changed
  BY <1>2 DEF Handles, Follows, Grows
<1>6. HandsOver(s, x)
  <2> SUFFICES ASSUME NEW r \in Runner, NEW t \in Task,
                      <<"run", r, t>> \in x.asked, <<"run", r, t>> \notin s.asked,
                      NEW d \in Deps[t]
               PROVE  Met(Needs[t], s.status[d]) \/ Met(Needs[t], x.status[d])
    BY DEF HandsOver
  <2>1. CASE <<"run", r, t>> \in y.asked
    BY <1>2, <2>1 DEF Handles, HandsOver
  <2>2. CASE <<"run", r, t>> \notin y.asked
    BY <1>2, <2>2 DEF Follows, HandsOut, DepsMetIn
  <2> QED
    BY <2>1, <2>2
<1>7. FindsSlots(s, x)
  <2> SUFFICES ASSUME NEW t \in Task, NEW r \in Runner, x.runner[t] = r, s.runner[t] # r
               PROVE  Cardinality(x.running[r]) <= Slots[r]
    BY DEF FindsSlots
  <2>1. CASE y.runner[t] # r
    BY <1>2, <2>1 DEF Follows, Fits
  <2>2. CASE y.runner[t] = r /\ x.running[r] \subseteq y.running[r]
    <3>1. Cardinality(y.running[r]) <= Slots[r]
      BY <2>2 DEF Handles, FindsSlots
    <3>2. /\ IsFiniteSet(y.running[r]) /\ Cardinality(y.running[r]) \in Nat
          /\ Cardinality(x.running[r]) \in Nat /\ Slots[r] \in Nat
      BY <1>1, <1>2, FreeSlotsType, ParametersAreTyped
    <3>3. Cardinality(x.running[r]) <= Cardinality(y.running[r])
      BY <2>2, <3>2, FS_Subset
    <3> QED
      BY <3>1, <3>2, <3>3
  <2>3. CASE ~(x.running[r] \subseteq y.running[r])
    BY <1>2, <2>3 DEF Follows, Fits
  <2> QED
    BY <2>1, <2>2, <2>3
<1> QED
  BY <1>3, <1>4, <1>5, <1>6, <1>7 DEF Handles

\* It then serves whoever can be served, and kills nobody.
LEMMA ScheduledServes ==
  ASSUME NEW s \in Tables, NEW y, Good(y), NEW x, x = Schedule(y)
  PROVE  Served(x) /\ (Deaths(s, y) => Deaths(s, x))
<1>1. y \in Tables /\ Sound(y)
  BY DEF Good
<1>2. x \in Tables /\ Follows(y, x) /\ x.status = y.status
  BY <1>1, ScheduleFollows
<1>3. Served(x)
  BY <1>1, ScheduleServes, FullServes
<1>4. ASSUME Deaths(s, y) PROVE Deaths(s, x)
  BY <1>1, <1>2, <1>4, EndsStays DEF Deaths
<1> QED
  BY <1>3, <1>4

\* A runner's tasks are lost after its row has changed; all it had was assigned to it
\* or else had started.
LEMMA LostHandles ==
  ASSUME NEW s, Good(s), NEW y \in Tables, Sound(y),
         y.status = s.status, y.runner = s.runner, y.asked = s.asked,
         NEW S \in SUBSET Task, NEW order \in Orders(S),
         Unheld(y) \subseteq S, \A t \in S : s.status[t] # "absent",
         y.requeued = s.requeued,
         NEW x, x = LoseAll(y, order)
  PROVE  Handles(s, x) /\ (Served(y) => Served(x)) /\ Deaths(s, x)
<1>1. x \in Tables /\ Loses(y, x) /\ Unheld(x) = {}
  <2>1. x \in Tables /\ Loses(y, x) /\ Unheld(x) \subseteq Unheld(y) \ S
    BY LoseAllLoses
  <2> QED
    BY <2>1
<1>2. Moves(s, x)
  <2> SUFFICES ASSUME NEW t \in Task PROVE x.status[t] \in Lifecycle!After(s.status[t])
    BY DEF Moves
  <2>1. s.status[t] \in Status \union {"absent"}
    BY DEF Good, Tables
  <2>2. CASE x.status[t] = s.status[t]
    BY <2>1, <2>2 DEF Lifecycle!After, Lifecycle!Status, Lifecycle!Retryable, Status
  <2>3. CASE x.status[t] # s.status[t]
    <3>1. /\ s.status[t] # "absent" /\ ~IsTerminal(s.status[t])
          /\ x.status[t] \in {"queued", "failed", "runner_lost"}
      BY <1>1, <2>3 DEF Loses, Sinks
    <3>2. Lifecycle!After(s.status[t]) = Status \ {"merged"}
      BY <2>1, <3>1 DEF Lifecycle!After, Lifecycle!Status, Lifecycle!Retryable,
                        IsTerminal, Terminal, Status
    <3> QED
      BY <3>1, <3>2 DEF Status
  <2> QED
    BY <2>2, <2>3
<1>3. \A t \in Task : s.status[t] = "absent" => x.status[t] = "absent"
  BY <1>1 DEF Loses, Sinks
<1>4. StepsWait(x)
  <2>1. Children \subseteq Task
    BY ParametersAreTyped DEF Children, StepsOf
  <2> QED
    BY <1>1, <1>2, <1>3, <2>1, StepsKeepWaiting DEF Good
<1>5. Good(x)
  BY <1>1, <1>4 DEF Good, Loses
<1>6. HandsOver(s, x)
  BY <1>1 DEF Loses, HandsOut, HandsOver, DepsMetIn
<1>7. FindsSlots(s, x)
  BY <1>1 DEF Loses, Fits, FindsSlots
<1>8. /\ s.asked \subseteq x.asked
      /\ \A t \in Task : x.status[t] # s.status[t] => t \in x.changed
  BY <1>1 DEF Loses
<1>9. Served(y) => Served(x)
  BY <1>1 DEF Loses
<1>10. Deaths(s, x)
  BY <1>1 DEF Loses, Deaths, Ends
<1> QED
  BY <1>2, <1>5, <1>6, <1>7, <1>8, <1>9, <1>10 DEF Handles

\* The tables with a plan approved and its steps created.
IsPlanned(b, y, p) ==
  /\ y \in Tables
  /\ y.created = b.created \o Steps[p]
  /\ \A t \in Task : y.status[t] = IF t = p THEN "approved"
                                   ELSE IF t \in StepsOf(p) THEN "queued" ELSE b.status[t]
  /\ \A t \in Task \ StepsOf(p) : y.pin[t] = b.pin[t]
  /\ y.runner = b.runner /\ y.result = b.result /\ y.requeued = b.requeued
  /\ y.link = b.link /\ y.running = b.running /\ y.asked = b.asked
  /\ y.changed = b.changed \union StepsOf(p) \union {p}

\* ApprovePlan schedules such tables.
LEMMA PlannedStep ==
  ASSUME NEW b \in Tables, NEW p \in Task
  PROVE  \E y : IsPlanned(b, y, p) /\ ApprovePlan(b, p) = Schedule(y)
<1> DEFINE st == [t \in Task |-> IF t \in StepsOf(p) THEN "queued" ELSE b.status[t]]
           stp == [st EXCEPT ![p] = "approved"]
           pn == [t \in Task |-> IF t \in StepsOf(p) THEN b.pin[p] ELSE b.pin[t]]
           cr == b.created \o Steps[p]
           ch == b.changed \union StepsOf(p) \union {p}
           c == CreateChildren(b, p)
           y == [c EXCEPT !.status[p] = "approved", !.changed = @ \union {p}]
<1>1. Steps[p] \in Seq(Task) /\ StepsOf(p) \subseteq Task
  BY ParametersAreTyped DEF StepsOf
<1>2. b.created \in Seq(Task) /\ b.changed \subseteq Task
  BY DEF Tables
<1>3. cr \in Seq(Task) /\ ch \in SUBSET Task
  BY <1>1, <1>2
<1>4. stp \in [Task -> Status \union {"absent"}] /\ pn \in [Task -> Runner \union {NoRunner}]
  BY DEF Tables, Status
<1>5. \A t \in Task : stp[t] = IF t = p THEN "approved"
                               ELSE IF t \in StepsOf(p) THEN "queued" ELSE b.status[t]
  OBVIOUS
<1>6. \A t \in Task \ StepsOf(p) : pn[t] = b.pin[t]
  OBVIOUS
<1>7. c = [b EXCEPT !.created = cr, !.status = st, !.pin = pn,
                    !.changed = b.changed \union StepsOf(p)]
  BY DEF CreateChildren, Tables
<1>8. y = [b EXCEPT !.created = cr, !.status = stp, !.pin = pn, !.changed = ch]
  <2> HIDE DEF c, st, pn, cr
  <2>1. c.status = st /\ c.changed = b.changed \union StepsOf(p)
    BY <1>7 DEF Tables
  <2>2. y = [c EXCEPT !.status = stp, !.changed = ch]
    BY <2>1
  <2> HIDE DEF y, stp, ch
  <2> QED
    BY <1>7, <2>2 DEF Tables
<1>9. ApprovePlan(b, p) = Schedule(y)
  BY DEF ApprovePlan
<1> HIDE DEF y, c, stp, st, pn, cr, ch
<1>10. y \in Tables
  BY <1>3, <1>4, <1>8 DEF Tables
<1>11. /\ y.created = cr /\ y.status = stp /\ y.pin = pn /\ y.changed = ch
       /\ y.runner = b.runner /\ y.result = b.result /\ y.requeued = b.requeued
       /\ y.link = b.link /\ y.running = b.running /\ y.asked = b.asked
  BY <1>8 DEF Tables
<1>12. IsPlanned(b, y, p)
  BY <1>5, <1>6, <1>10, <1>11 DEF IsPlanned, cr, ch
<1> QED
  BY <1>9, <1>12

\* An approved plan, at the end of a handler that leaves it for review.
LEMMA PlanHandles ==
  ASSUME NEW s, NEW b, Handles(s, b), NEW p \in Task,
         b.status[p] = "awaiting_review", Steps[p] # <<>>,
         NEW x, x = ApprovePlan(b, p),
         s \in Tables
  PROVE  Handles(s, x) /\ Served(x) /\ (Deaths(s, b) => Deaths(s, x))
<1>1. b \in Tables /\ Sound(b) /\ Unheld(b) = {} /\ StepsWait(b)
  BY DEF Handles, Good
<1>2. Steps[p] \in Seq(Task) /\ StepsOf(p) \subseteq Task /\ p \notin StepsOf(p)
  BY ParametersAreTyped, StepsAreOwn DEF StepsOf
<1>6. PICK y : IsPlanned(b, y, p) /\ x = Schedule(y)
  BY <1>1, PlannedStep
<1>5. y \in Tables
  BY <1>6 DEF IsPlanned
<1>3. /\ y.created = b.created \o Steps[p]
      /\ \A t \in Task \ StepsOf(p) : y.pin[t] = b.pin[t]
      /\ y.runner = b.runner /\ y.result = b.result /\ y.requeued = b.requeued
      /\ y.link = b.link /\ y.running = b.running /\ y.asked = b.asked
      /\ y.changed = b.changed \union StepsOf(p) \union {p}
  BY <1>6 DEF IsPlanned
<1>4. \A t \in Task : y.status[t] = IF t = p THEN "approved"
                                    ELSE IF t \in StepsOf(p) THEN "queued" ELSE b.status[t]
  BY <1>6 DEF IsPlanned
<1>7. \A t \in StepsOf(p) : b.status[t] = "absent" /\ b.runner[t] = NoRunner
  <2> SUFFICES ASSUME NEW t \in StepsOf(p)
               PROVE  b.status[t] = "absent" /\ b.runner[t] = NoRunner
    OBVIOUS
  <2>1. b.status[t] = "absent" /\ t \in Task
    BY <1>1, <1>2 DEF StepsWait
  <2>2. b.runner[t] # NoRunner =>
          b.runner[t] \in Runner /\ <<"run", b.runner[t], t>> \in b.asked
    BY <1>1, <2>1 DEF Sound, Tables
  <2>3. \A r \in Runner : <<"run", r, t>> \notin b.asked
    BY <1>1, <2>1 DEF Sound
  <2> QED
    BY <2>1, <2>2, <2>3
<1>8. Sound(y)
  <2>1. \A t \in Task : y.status[t] = "absent" => b.status[t] = "absent"
    BY <1>4
  <2>2. \A t \in Task : y.runner[t] # NoRunner => y.pin[t] = b.pin[t]
    BY <1>3, <1>7
  <2>3. ASSUME NEW t \in Task, y.status[t] # "absent"
        PROVE  \E k \in 1..Len(y.created) : y.created[k] = t
    <3>0. /\ Len(b.created) \in Nat /\ Len(Steps[p]) \in Nat
          /\ Len(y.created) = Len(b.created) + Len(Steps[p])
      BY <1>1, <1>2, <1>3 DEF Tables
    <3>1. CASE t \in StepsOf(p)
      <4>1. PICK i \in 1..Len(Steps[p]) : Steps[p][i] = t
        BY <3>1 DEF StepsOf
      <4>2. Len(b.created) + i \in 1..Len(y.created)
        <5> DEFINE m == Len(b.created)
                   n == Len(Steps[p])
                   l == Len(y.created)
        <5>1. m \in Nat /\ n \in Nat /\ l = m + n /\ i \in 1..n
          BY <3>0, <4>1
        <5> HIDE DEF m, n, l
        <5>2. m + i \in 1..l
          BY <5>1
        <5> QED
          BY <5>2 DEF m, l
      <4>3. y.created[Len(b.created) + i] = t
        <5> DEFINE u == b.created
                   v == Steps[p]
        <5>1. u \in Seq(Task) /\ v \in Seq(Task) /\ i \in 1..Len(v) /\ v[i] = t
          BY <1>1, <1>2, <4>1 DEF Tables
        <5>2. y.created = u \o v
          BY <1>3
        <5> HIDE DEF u, v
        <5>3. (u \o v)[Len(u) + i] = v[i]
          BY <5>1
        <5>4. y.created[Len(u) + i] = t
          BY <5>1, <5>2, <5>3
        <5> QED
          BY <5>4 DEF u
      <4> QED
        BY <4>2, <4>3
    <3>2. CASE t \notin StepsOf(p)
      <4>1. b.status[t] # "absent"
        BY <1>4, <2>3, <3>2
      <4>2. PICK k \in 1..Len(b.created) : b.created[k] = t
        BY <1>1, <4>1 DEF Sound
      <4>3. k \in 1..Len(y.created)
        <5> DEFINE m == Len(b.created)
                   n == Len(Steps[p])
                   l == Len(y.created)
        <5>1. m \in Nat /\ n \in Nat /\ l = m + n /\ k \in 1..m
          BY <3>0, <4>2
        <5> HIDE DEF m, n, l
        <5>2. k \in 1..l
          BY <5>1
        <5> QED
          BY <5>2 DEF l
      <4>4. y.created[k] = t
        BY <1>1, <1>2, <1>3, <3>0, <4>2 DEF Tables
      <4> QED
        BY <4>3, <4>4
    <3> QED
      BY <3>1, <3>2
  <2>4. \A r \in Runner : y.link[r] = "absent" => y.running[r] = {}
    BY <1>1, <1>3 DEF Sound
  <2>5. \A r \in Runner, t \in Task : t \in y.running[r] => y.status[t] # "absent"
    BY <1>1, <1>3, <2>1 DEF Sound
  <2>6. \A w \in {"run", "push", "discard"}, r \in Runner, t \in Task :
          <<w, r, t>> \in y.asked => y.status[t] # "absent"
    BY <1>1, <1>3, <2>1 DEF Sound
  <2>7. \A t \in Task : y.runner[t] # NoRunner =>
          y.pin[t] \in {NoRunner, y.runner[t]} /\ <<"run", y.runner[t], t>> \in y.asked
    BY <1>1, <1>3, <2>2 DEF Sound
  <2> QED
    BY <2>3, <2>4, <2>5, <2>6, <2>7 DEF Sound
<1>9. Unheld(y) = {}
  BY <1>1, <1>3, <1>4, <1>7 DEF Unheld
<1>10. Moves(s, y)
  <2> SUFFICES ASSUME NEW t \in Task PROVE y.status[t] \in Lifecycle!After(s.status[t])
    BY DEF Moves
  <2>1. b.status[t] \in Lifecycle!After(s.status[t])
    BY DEF Handles, Moves
  <2>2. CASE t = p
    BY <1>4, <2>1, <2>2 DEF Lifecycle!After, Lifecycle!Status, Lifecycle!Retryable
  <2>3. CASE t \in StepsOf(p)
    <3>1. s.status[t] = "absent"
      BY <1>7, <2>1, <2>3 DEF Lifecycle!After, Lifecycle!Status, Lifecycle!Retryable
    <3> QED
      BY <1>2, <1>4, <2>3, <3>1 DEF Lifecycle!After
  <2>4. CASE t # p /\ t \notin StepsOf(p)
    BY <1>4, <2>1, <2>4
  <2> QED
    BY <2>2, <2>3, <2>4
<1>11. StepsWait(y)
  <2> SUFFICES ASSUME NEW q \in Task, NEW t \in StepsOf(q),
                      y.status[q] \notin {"approved", "merged"}
               PROVE  y.status[t] = "absent"
    BY DEF StepsWait
  <2>1. q # p /\ t \notin StepsOf(p) /\ t \in Task
    <3>1. q # p
      BY <1>4
    <3>2. t \notin StepsOf(p)
      BY <3>1, StepsAreOwn
    <3>3. Steps[q] \in Seq(Task)
      BY ParametersAreTyped
    <3>4. t \in Task
      BY <3>3 DEF StepsOf
    <3> QED
      BY <3>1, <3>2, <3>4
  <2>2. b.status[q] \notin {"approved", "merged"}
    <3>1. q \in StepsOf(p) => Steps[q] = <<>>
      BY StepsAreOwn
    <3>2. Steps[q] # <<>>
      BY DEF StepsOf
    <3> QED
      BY <1>4, <2>1, <3>1, <3>2
  <2>3. b.status[t] = "absent"
    BY <1>1, <2>2 DEF StepsWait
  <2>4. t # p
    BY <2>3
  <2> QED
    BY <1>4, <2>1, <2>3, <2>4
<1>12. HandsOver(s, y)
  <2> SUFFICES ASSUME NEW r \in Runner, NEW t \in Task,
                      <<"run", r, t>> \in y.asked, <<"run", r, t>> \notin s.asked,
                      NEW d \in Deps[t], Met(Needs[t], b.status[d])
               PROVE  Met(Needs[t], y.status[d])
    BY <1>3 DEF HandsOver, Handles
  <2>0. d \in Task /\ Needs[t] \in Condition
    BY SpecsAreTyped
  <2>1. b.status[d] # "absent"
    BY <2>0 DEF Met, Condition
  <2>2. d \notin StepsOf(p)
    BY <1>7, <2>1
  <2> QED
    BY <1>4, <2>0, <2>2 DEF Met, Condition
<1>13. FindsSlots(s, y)
  BY <1>3 DEF Handles, FindsSlots
<1>14. /\ s.asked \subseteq y.asked
       /\ \A t \in Task : y.status[t] # s.status[t] => t \in y.changed
  BY <1>3, <1>4 DEF Handles
<1>15. Handles(s, y)
  BY <1>5, <1>8, <1>9, <1>10, <1>11, <1>12, <1>13, <1>14 DEF Handles, Good
<1>16. ASSUME Deaths(s, b) PROVE Deaths(s, y)
  <2> SUFFICES ASSUME NEW d \in Task, NEW t \in Task, d \in Deps[t],
                      s.status[d] \notin Dead, y.status[d] \in Dead, s.status[t] = "queued"
               PROVE  Ends(s, y, t)
    BY DEF Deaths
  <2>1. b.status[d] \in Dead
    BY <1>4 DEF Dead
  <2>2. Ends(s, b, t)
    BY <1>16, <2>1 DEF Deaths
  <2>3. t \notin StepsOf(p)
    <3>1. b.status[t] # "absent"
      BY DEF Handles, Moves, Lifecycle!After, Lifecycle!Retryable, Lifecycle!Status
    <3> QED
      BY <1>7, <3>1
  <2> QED
    BY <1>3, <1>4, <2>2, <2>3 DEF Ends
<1> QED
  BY <1>6, <1>15, <1>16, ScheduledHandles, ScheduledServes DEF Handles

-----------------------------------------------------------------------------
\* The handlers, one by one.

\* What a handler leaves true, and what it may have done.
Kept == IInv' /\ Lifecycle!Next /\ SlotsRespected /\ (Restart \/ DeathsFollowed)

\* What the invariant says of the tables a handler starts from.
LEMMA NowGood ==
  ASSUME IInv
  PROVE  /\ Now \in Tables /\ Sound(Now) /\ Unheld(Now) = {} /\ StepsWait(Now)
         /\ Handles(Now, Now) /\ Served(Now)
  BY HandlesReflexive DEF IInv, Good

\* A row of the runner table, or what runners were asked, changes and no task does.
LEMMA TasksUntouched ==
  ASSUME IInv, NEW x \in Tables, Sound(x), Unheld(x) = {},
         x.status = status, x.runner = runner, asked \subseteq x.asked,
         \A r \in Runner, t \in Task : <<"run", r, t>> \in x.asked => <<"run", r, t>> \in asked
  PROVE  Handles(Now, x)
<1>1. StepsWait(x) /\ Moves(Now, x)
  BY NowGood, NowIs DEF StepsWait, Handles, Moves
<1>2. HandsOver(Now, x) /\ FindsSlots(Now, x)
  BY NowIs DEF HandsOver, FindsSlots
<1> QED
  BY <1>1, <1>2, NowIs DEF Handles, Good

\* create_task: the new task waits for nothing that is not listed, and has no runner.
LEMMA CreateTaskKeeps ==
  ASSUME IInv, NEW t \in Task, CreateTask(t)
  PROVE  Kept
<1>1. PICK x : x = Schedule([Now EXCEPT !.created = Append(@, t), !.status[t] = "queued",
                                        !.changed = {t}]) /\ Commit(x)
  BY DEF CreateTask
<1>2. t \notin Children /\ status[t] = "absent"
  BY DEF CreateTask
<1>3. /\ created \in Seq(Task) /\ status \in [Task -> Status \union {"absent"}]
      /\ Now \in Tables
  BY NowTyped DEF IInv, TablesTyped
<1> DEFINE st == [status EXCEPT ![t] = "queued"]
           cr == Append(created, t)
           y == [Now EXCEPT !.created = Append(@, t), !.status[t] = "queued", !.changed = {t}]
<1>4. st \in [Task -> Status \union {"absent"}] /\ cr \in Seq(Task)
  BY <1>3 DEF Status
<1>5. \A u \in Task : st[u] = IF u = t THEN "queued" ELSE status[u]
  BY <1>3
<1>6. y = [Now EXCEPT !.created = cr, !.status = st, !.changed = {t}]
  BY DEF Now
<1>7. x = Schedule(y)
  BY <1>1
<1> HIDE DEF y, st
<1>8. y \in Tables
  BY <1>3, <1>4, <1>6 DEF Tables
<1>9. /\ y.created = cr /\ y.status = st /\ y.changed = {t} /\ y.runner = runner
      /\ y.pin = pin /\ y.link = link /\ y.running = running /\ y.asked = asked
  BY <1>3, <1>6, NowIs DEF Tables
<1>10. \A u \in Task : y.status[u] = "absent" => status[u] = "absent"
  BY <1>5, <1>9
<1>11. Sound(y)
  <2>1. ASSUME NEW u \in Task, y.status[u] # "absent"
        PROVE  \E k \in 1..Len(y.created) : y.created[k] = u
    <3>1. Len(created) \in Nat /\ Len(cr) = Len(created) + 1 /\ cr[Len(created) + 1] = t
          /\ \A k \in 1..Len(created) : cr[k] = created[k]
      BY <1>3
    <3>2. CASE u = t
      BY <1>9, <3>1, <3>2
    <3>3. CASE u # t
      <4>1. PICK k \in 1..Len(created) : created[k] = u
        BY <1>5, <1>9, <2>1, <3>3, NowGood, NowIs DEF Sound
      <4>2. k \in 1..Len(cr) /\ cr[k] = u
        BY <3>1, <4>1
      <4> QED
        BY <1>9, <4>2
    <3> QED
      BY <3>2, <3>3
  <2> QED
    BY <1>9, <1>10, <2>1, NowGood, NowIs DEF Sound
<1>12. runner[t] = NoRunner
  <2>1. runner[t] # NoRunner => runner[t] \in Runner /\ <<"run", runner[t], t>> \in asked
    BY <1>3, NowGood, NowIs DEF Sound, Tables
  <2>2. \A r \in Runner : <<"run", r, t>> \notin asked
    BY <1>2, NowGood, NowIs DEF Sound
  <2> QED
    BY <2>1, <2>2
<1>13. Unheld(y) = {}
  BY <1>5, <1>9, <1>12, NowGood, NowIs DEF Unheld
<1>14. Moves(Now, y)
  <2> SUFFICES ASSUME NEW u \in Task PROVE y.status[u] \in Lifecycle!After(status[u])
    BY NowIs DEF Moves
  <2>1. CASE u = t
    BY <1>2, <1>5, <1>9, <2>1 DEF Lifecycle!After
  <2>2. CASE u # t
    BY <1>5, <1>9, <2>2, NowGood, NowIs DEF Handles, Moves
  <2> QED
    BY <2>1, <2>2
<1>15. StepsWait(y)
  <2>1. \A u \in Children : status[u] = "absent" => y.status[u] = "absent"
    <3>1. Children \subseteq Task
      BY ParametersAreTyped DEF Children, StepsOf
    <3> QED
      BY <1>2, <1>5, <1>9, <3>1
  <2> QED
    BY <1>8, <1>14, <2>1, NowGood, NowIs, StepsKeepWaiting
<1>16. HandsOver(Now, y) /\ FindsSlots(Now, y)
  BY <1>9, NowIs DEF HandsOver, FindsSlots
<1>17. Handles(Now, y)
  BY <1>5, <1>8, <1>9, <1>11, <1>13, <1>14, <1>15, <1>16, NowIs DEF Handles, Good
<1>18. Deaths(Now, y)
  BY <1>2, <1>5, <1>9, NowIs, NobodyDies DEF Dead
<1>19. Handles(Now, x) /\ Served(x) /\ Deaths(Now, x)
  BY <1>3, <1>7, <1>17, <1>18, ScheduledHandles, ScheduledServes DEF Handles
<1> QED
  BY <1>1, <1>19, Committed DEF Kept

\* Approving a run and rejecting: a frame to the runner.
LEMMA AskKeeps ==
  ASSUME IInv, NEW t \in Task, NEW what \in {"push", "discard"}, Ask(what, t)
  PROVE  Kept
<1> DEFINE x == [Now EXCEPT !.asked = @ \union {<<what, runner[t], t>>}]
<1>1. /\ status[t] = "awaiting_review" /\ runner[t] # NoRunner
      /\ asked' = asked \union {<<what, runner[t], t>>}
      /\ UNCHANGED <<created, status, runner, pin, result, requeued, link, running, disk>>
  BY DEF Ask, Reachable
<1>2. runner[t] \in Runner /\ Now \in Tables /\ disk \in [Task -> Record]
  BY <1>1, NowTyped DEF IInv, TablesTyped
<1>3. x \in Tables
  <2> DEFINE as == asked \union {<<what, runner[t], t>>}
  <2>1. as \in SUBSET ({"run", "push", "discard"} \X Runner \X Task)
    BY <1>2 DEF IInv, TablesTyped
  <2>2. x = [Now EXCEPT !.asked = as]
    BY DEF Now
  <2> HIDE DEF x, as
  <2> QED
    BY <1>2, <2>1, <2>2 DEF Tables
<1>4. /\ x.created = created /\ x.status = status /\ x.runner = runner /\ x.pin = pin
      /\ x.result = result /\ x.requeued = requeued /\ x.link = link /\ x.running = running
      /\ x.asked = asked \union {<<what, runner[t], t>>} /\ x.changed = {}
  BY DEF Now
<1> HIDE DEF x
<1>5. Commit(x)
  BY <1>1, <1>2, <1>4 DEF Commit, Save
<1>6. Sound(x)
  BY <1>1, <1>4, NowGood, NowIs DEF Sound
<1>7. Unheld(x) = {}
  BY <1>4, NowGood, NowIs DEF Unheld
<1>8. Handles(Now, x)
  BY <1>3, <1>4, <1>6, <1>7, TasksUntouched
<1>9. Served(x) /\ Deaths(Now, x)
  BY <1>4, NowGood, NowIs, SameServed, NobodyDies
<1> QED
  BY <1>5, <1>8, <1>9, Committed DEF Kept

\* Approving a plan.
LEMMA ApprovePlanTaskKeeps ==
  ASSUME IInv, NEW t \in Task, ApprovePlanTask(t)
  PROVE  Kept
<1>1. PICK x : x = ApprovePlan(Now, t) /\ Commit(x)
  BY DEF ApprovePlanTask
<1>2. Steps[t] # <<>> /\ Now.status[t] = "awaiting_review"
  BY NowIs DEF ApprovePlanTask
<1>3. Deaths(Now, Now)
  BY NobodyDies
<1>4. Handles(Now, x) /\ Served(x) /\ Deaths(Now, x)
  BY <1>1, <1>2, <1>3, NowGood, PlanHandles
<1> QED
  BY <1>1, <1>4, Committed DEF Kept

\* Cancelling a queued task, which persists that task alone.
LEMMA CancelQueuedKeeps ==
  ASSUME IInv, NEW t \in Task, CancelQueued(t)
  PROVE  Kept
<1>1. PICK x : x = ApplyEvent(Now, t, "cancelled") /\ Save(x, {t})
  BY DEF CancelQueued
<1>2. "cancelled" \in Event /\ Now.status[t] # "absent" /\ Good(Now)
  BY NowIs DEF CancelQueued, Event, IInv
<1>3. Handles(Now, x)
  BY <1>1, <1>2, EventHandles
<1>4. Leads(Now, x, t, "cancelled")
  BY <1>1, <1>2, EventLeads, NowGood
<1>5. TablesTyped' /\ Good(Now)'
  BY <1>1, <1>3, SavedTables DEF Handles
<1>6. DiskFollows'
  <2>1. asked \subseteq x.asked /\ \A u \in Task \ {t} :
          x.status[u] = status[u] \/ (status[u] = "queued" /\ x.status[u] = "failed")
    BY <1>4, NowIs DEF Leads
  <2> QED
    BY <1>1, <1>3, <2>1, SavedDisk DEF Handles
<1>7. Lifecycle!Next /\ SlotsRespected
  BY <1>1, <1>3, SavedLifecycle
<1>8. Served(x) /\ Deaths(Now, x)
  BY <1>1, <1>2, NowGood, EventServes, EventDeaths
<1>9. Served(Now)' /\ DeathsFollowed
  BY <1>1, <1>8, SavedServed, SavedDeaths
<1> QED
  BY <1>5, <1>6, <1>7, <1>9 DEF Kept, IInv

\* A follow-up: it takes its slot whether one is free or not, so it assigns nobody anew.
LEMMA MessageKeeps ==
  ASSUME IInv, NEW t \in Task, Message(t)
  PROVE  Kept
<1> DEFINE a == ApplyEvent(Now, t, "message")
           r == runner[t]
           x == [a EXCEPT !.running[runner[t]] = @ \union {t},
                          !.asked = @ \union {<<"run", runner[t], t>>}]
<1>1. /\ status[t] \in {"awaiting_review", "conflicted"}
      /\ r # NoRunner /\ link[r] = "connected" /\ Commit(x)
  BY DEF Message, Reachable
<1>2. r \in Runner /\ Now \in Tables /\ "message" \in Event /\ Now.status[t] # "absent"
  BY <1>1, NowGood, NowIs DEF IInv, TablesTyped, Event
<1>3. Handles(Now, a)
  BY <1>2, EventHandles DEF IInv
<1>4. a = Noted(Now, t, "message")
  BY <1>1, NowIs DEF ApplyEvent, ApplyEventWith, Recorded, FreesSlot, Finished,
                     Transition, Target, IsTerminal, Terminal
<1> HIDE DEF a
<1>5. a \in Tables /\ a.link = link /\ a.running = running /\ a.asked = asked /\ a.runner = runner
  <2>1. IsNoted(Now, a, t, "message") /\ a \in Tables
    BY <1>2, <1>4, NotedFacts
  <2> QED
    BY <2>1, NowIs DEF IsNoted
<1> DEFINE rn == [a.running EXCEPT ![r] = running[r] \union {t}]
           as == asked \union {<<"run", r, t>>}
<1>6. rn \in [Runner -> SUBSET Task] /\ \A q \in Runner :
        rn[q] = IF q = r THEN running[r] \union {t} ELSE running[q]
  BY <1>5 DEF Tables
<1>7. as = asked
  <2>1. <<"run", r, t>> \in asked
    BY <1>1, NowGood, NowIs DEF Sound
  <2> QED
    BY <2>1
<1>8. x = [a EXCEPT !.running = rn, !.asked = as]
  BY <1>5
<1> HIDE DEF x, rn, as
<1>9. x \in Tables
  BY <1>5, <1>6, <1>7, <1>8 DEF Tables
<1>10. /\ x.created = a.created /\ x.status = a.status /\ x.runner = a.runner /\ x.pin = a.pin
       /\ x.link = a.link /\ x.running = rn /\ x.asked = a.asked /\ x.changed = a.changed
  BY <1>5, <1>7, <1>8 DEF Tables
<1>11. a.status[t] # "absent" /\ Sound(a) /\ Unheld(a) = {} /\ StepsWait(a)
  <2>1. a.status[t] = Transition(status[t], "message")
    BY <1>2, <1>4, NotedFacts, NowIs
  <2> QED
    BY <1>1, <1>3, <2>1 DEF Transition, Target, IsTerminal, Terminal, Handles, Good
<1>12. Sound(x)
  BY <1>1, <1>5, <1>6, <1>10, <1>11 DEF Sound
<1>13. Unheld(x) = {}
  <2> SUFFICES ASSUME NEW u \in Unheld(x) PROVE FALSE
    OBVIOUS
  <2>1. a.runner[u] \in Runner /\ a.running[a.runner[u]] \subseteq x.running[a.runner[u]]
    <3>1. u \in Task /\ a.runner[u] # NoRunner
      BY <1>10 DEF Unheld
    <3>2. a.runner[u] \in Runner
      BY <1>5, <3>1 DEF Tables
    <3>3. rn[a.runner[u]] = IF a.runner[u] = r THEN running[r] \union {t} ELSE running[a.runner[u]]
      BY <1>6, <3>2
    <3> QED
      BY <1>5, <1>10, <3>2, <3>3
  <2>2. u \in Unheld(a)
    BY <1>10, <2>1 DEF Unheld
  <2> QED
    BY <1>11, <2>2
<1>14. Handles(Now, x)
  <2>1. HandsOver(Now, x) /\ FindsSlots(Now, x)
    BY <1>5, <1>10, NowIs DEF HandsOver, FindsSlots
  <2>2. StepsWait(x) /\ Moves(Now, x)
    BY <1>3, <1>10, <1>11 DEF Handles, Moves, StepsWait
  <2> QED
    BY <1>3, <1>9, <1>10, <1>12, <1>13, <2>1, <2>2 DEF Handles, Good
<1>15. Served(x)
  <2>1. Served(a)
    BY <1>2, NowGood, EventServes DEF a
  <2>2. \A u \in Task : a.result[u] => x.result[u]
    BY <1>8
  <2>3. \A u \in Task : /\ IsReady(x, u) <=> IsReady(a, u)
                        /\ Undecided(x, u) <=> Undecided(a, u)
    BY <1>10 DEF IsReady, Undecided
  <2>4. \A q \in Runner : a.running[q] \subseteq x.running[q]
    BY <1>5, <1>6, <1>10
  <2> QED
    BY <1>5, <1>9, <1>10, <2>1, <2>2, <2>3, <2>4, ServedStays
<1>16. Deaths(Now, x)
  <2>1. a.status[t] \notin Dead
    BY <1>1, <1>2, <1>4, NotedFacts, NowIs DEF Transition, Target, IsTerminal, Terminal, Dead
  <2>2. \A u \in Task \ {t} : a.status[u] = status[u]
    BY <1>2, <1>4, NotedFacts, NowIs
  <2> QED
    BY <1>10, <2>1, <2>2, NowIs, NobodyDies DEF Dead
<1> QED
  BY <1>1, <1>14, <1>15, <1>16, Committed DEF Kept

\* A retry by hand.
LEMMA RetryTaskKeeps ==
  ASSUME IInv, NEW t \in Task, NEW into \in Runner \union {NoRunner}, RetryTask(t, into)
  PROVE  Kept
<1>1. PICK x : x = Retry(Now, t, into) /\ Commit(x)
  BY DEF RetryTask
<1>2. status[t] \in Retryable /\ Now \in Tables
  BY NowGood, NowIs DEF RetryTask, RetrySpecOk
<1> DEFINE y == Requeue(Now, t, into)
<1>3. IsRequeued(Now, y, t, into) /\ x = Schedule(y)
  BY <1>1, <1>2, RequeueStep DEF Retry
<1> HIDE DEF y
<1>4. /\ y \in Tables
      /\ y.created = created /\ y.link = link /\ y.running = running /\ y.asked = asked
      /\ y.changed = {t}
      /\ \A u \in Task : y.status[u] = IF u = t THEN "queued" ELSE status[u]
      /\ \A u \in Task : y.runner[u] = IF u = t THEN NoRunner ELSE runner[u]
      /\ \A u \in Task : u # t => y.pin[u] = pin[u]
  BY <1>2, <1>3, NowIs DEF IsRequeued, Tables
<1>5. \A u \in Task : y.status[u] = "absent" <=> status[u] = "absent"
  BY <1>2, <1>4 DEF Retryable
<1>6. Sound(y)
  <2>1. \A u \in Task : y.runner[u] # NoRunner =>
          y.pin[u] \in {NoRunner, y.runner[u]} /\ <<"run", y.runner[u], u>> \in y.asked
    BY <1>4, NowGood, NowIs DEF Sound
  <2>2. \A u \in Task : y.status[u] # "absent" => \E k \in 1..Len(y.created) : y.created[k] = u
    BY <1>4, <1>5, NowGood, NowIs DEF Sound
  <2> QED
    BY <1>4, <1>5, <2>1, <2>2, NowGood, NowIs DEF Sound
<1>7. Unheld(y) = {}
  BY <1>4, NowGood, NowIs DEF Unheld
<1>8. Moves(Now, y)
  <2> SUFFICES ASSUME NEW u \in Task PROVE y.status[u] \in Lifecycle!After(status[u])
    BY NowIs DEF Moves
  <2>1. CASE u = t
    BY <1>2, <1>4, <2>1 DEF Lifecycle!After, Lifecycle!Retryable, Retryable
  <2>2. CASE u # t
    BY <1>4, <2>2, NowGood, NowIs DEF Handles, Moves
  <2> QED
    BY <2>1, <2>2
<1>9. StepsWait(y)
  <2>1. Children \subseteq Task
    BY ParametersAreTyped DEF Children, StepsOf
  <2> QED
    BY <1>4, <1>5, <1>8, <2>1, NowGood, NowIs, StepsKeepWaiting
<1>10. HandsOver(Now, y) /\ FindsSlots(Now, y)
  BY <1>4, NowIs, RunnersAreNumbers DEF HandsOver, FindsSlots
<1>11. Handles(Now, y)
  BY <1>4, <1>6, <1>7, <1>8, <1>9, <1>10, NowIs DEF Handles, Good
<1>12. Deaths(Now, y)
  BY <1>4, NowIs, NobodyDies DEF Dead
<1>13. Handles(Now, x) /\ Served(x) /\ Deaths(Now, x)
  BY <1>2, <1>3, <1>11, <1>12, ScheduledHandles, ScheduledServes DEF Handles
<1> QED
  BY <1>1, <1>13, Committed DEF Kept

\* mark_merged.
LEMMA MarkMergedKeeps ==
  ASSUME IInv, NEW t \in Task, MarkMerged(t)
  PROVE  Kept
<1> DEFINE st == [status EXCEPT ![t] = "merged"]
           y == [Now EXCEPT !.status[t] = "merged", !.changed = {t}]
<1>1. PICK x : x = Schedule(y) /\ Commit(x)
  BY DEF MarkMerged
<1>2. status[t] = "approved" /\ Now \in Tables /\ status \in [Task -> Status \union {"absent"}]
  BY NowGood DEF MarkMerged, IInv, TablesTyped
<1>3. st \in [Task -> Status \union {"absent"}]
  BY <1>2 DEF Status
<1>4. \A u \in Task : st[u] = IF u = t THEN "merged" ELSE status[u]
  BY <1>2
<1>5. y = [Now EXCEPT !.status = st, !.changed = {t}]
  BY DEF Now
<1> HIDE DEF y, st
<1>6. y \in Tables
  BY <1>2, <1>3, <1>5 DEF Tables
<1>7. /\ y.created = created /\ y.status = st /\ y.changed = {t} /\ y.runner = runner
      /\ y.pin = pin /\ y.link = link /\ y.running = running /\ y.asked = asked
  BY <1>2, <1>5, NowIs DEF Tables
<1>8. \A u \in Task : y.status[u] = "absent" <=> status[u] = "absent"
  BY <1>2, <1>4, <1>7
<1>9. Sound(y) /\ Unheld(y) = {}
  <2>1. Sound(y)
    BY <1>7, <1>8, NowGood, NowIs DEF Sound
  <2>2. Unheld(y) = {}
    BY <1>4, <1>7, NowGood, NowIs DEF Unheld
  <2> QED
    BY <2>1, <2>2
<1>10. Moves(Now, y)
  <2> SUFFICES ASSUME NEW u \in Task PROVE y.status[u] \in Lifecycle!After(status[u])
    BY NowIs DEF Moves
  <2>1. CASE u = t
    BY <1>2, <1>4, <1>7, <2>1 DEF Lifecycle!After, Lifecycle!Retryable, Lifecycle!Status
  <2>2. CASE u # t
    BY <1>4, <1>7, <2>2, NowGood, NowIs DEF Handles, Moves
  <2> QED
    BY <2>1, <2>2
<1>11. StepsWait(y)
  <2>1. Children \subseteq Task
    BY ParametersAreTyped DEF Children, StepsOf
  <2> QED
    BY <1>6, <1>8, <1>10, <2>1, NowGood, NowIs, StepsKeepWaiting
<1>12. HandsOver(Now, y) /\ FindsSlots(Now, y)
  BY <1>7, NowIs DEF HandsOver, FindsSlots
<1>13. Handles(Now, y)
  BY <1>4, <1>6, <1>7, <1>9, <1>10, <1>11, <1>12, NowIs DEF Handles, Good
<1>14. Deaths(Now, y)
  BY <1>4, <1>7, NowIs, NobodyDies DEF Dead
<1>15. Handles(Now, Schedule(y)) /\ Served(Schedule(y)) /\ Deaths(Now, Schedule(y))
  BY <1>2, <1>13, <1>14, ScheduledHandles, ScheduledServes DEF Handles
<1> QED
  BY <1>1, <1>15, Committed DEF Kept

\* auto_approve, at the end of a completed run.
LEMMA AutoApproveHandles ==
  ASSUME NEW s, NEW a, Handles(s, a), NEW t \in Task, NEW b, b = AutoApprove(a, t)
  PROVE  Handles(s, b) /\ (Served(a) => Served(b)) /\ (Deaths(s, a) => Deaths(s, b))
<1> DEFINE as == a.asked \union {<<"push", a.runner[t], t>>}
<1>1. CASE b = a
  BY <1>1
<1>2. CASE b # a
  <2>1. /\ a.status[t] = "awaiting_review" /\ a.runner[t] # NoRunner
        /\ b = [a EXCEPT !.asked = as]
    BY <1>2 DEF AutoApprove
  <2>2. a \in Tables /\ Sound(a) /\ Unheld(a) = {} /\ StepsWait(a)
    BY DEF Handles, Good
  <2>3. as \in SUBSET ({"run", "push", "discard"} \X Runner \X Task)
    BY <2>1, <2>2 DEF Tables
  <2>4. \A r \in Runner, u \in Task : <<"run", r, u>> \in as => <<"run", r, u>> \in a.asked
    OBVIOUS
  <2>5. \A w \in {"run", "push", "discard"}, r \in Runner, u \in Task :
          <<w, r, u>> \in as => a.status[u] # "absent"
    BY <2>1, <2>2 DEF Sound
  <2>6. a.asked \subseteq as
    OBVIOUS
  <2> HIDE DEF as
  <2>7. b \in Tables
    BY <2>1, <2>2, <2>3 DEF Tables
  <2>8. /\ b.created = a.created /\ b.status = a.status /\ b.runner = a.runner /\ b.pin = a.pin
        /\ b.link = a.link /\ b.running = a.running /\ b.asked = as /\ b.changed = a.changed
    BY <2>1, <2>2 DEF Tables
  <2>9. Sound(b)
    <3>1. \A u \in Task : b.runner[u] # NoRunner =>
            b.pin[u] \in {NoRunner, b.runner[u]} /\ <<"run", b.runner[u], u>> \in b.asked
      BY <2>2, <2>6, <2>8 DEF Sound
    <3>2. \A w \in {"run", "push", "discard"}, r \in Runner, u \in Task :
            <<w, r, u>> \in b.asked => b.status[u] # "absent"
      BY <2>5, <2>8
    <3>3. \A r \in Runner : b.link[r] = "absent" => b.running[r] = {}
      BY <2>2, <2>8 DEF Sound
    <3>4. \A r \in Runner, u \in Task : u \in b.running[r] => b.status[u] # "absent"
      BY <2>2, <2>8 DEF Sound
    <3>5. \A u \in Task : b.status[u] # "absent" =>
            \E k \in 1..Len(b.created) : b.created[k] = u
      BY <2>2, <2>8 DEF Sound
    <3> QED
      BY <3>1, <3>2, <3>3, <3>4, <3>5 DEF Sound
  <2>10. Unheld(b) = {} /\ StepsWait(b) /\ Moves(s, b)
    BY <2>2, <2>8 DEF Unheld, StepsWait, Moves, Handles
  <2>11. HandsOver(s, b) /\ FindsSlots(s, b)
    BY <2>4, <2>8 DEF Handles, HandsOver, FindsSlots
  <2>12. b.result = a.result /\ b.requeued = a.requeued
    BY <2>1, <2>2 DEF Tables
  <2>13. (Served(a) => Served(b)) /\ (Deaths(s, a) => Deaths(s, b))
    BY <2>8, <2>12, SameServed DEF Deaths, Ends
  <2> QED
    BY <2>6, <2>7, <2>8, <2>9, <2>10, <2>11, <2>13 DEF Handles, Good
<1> QED
  BY <1>1, <1>2

\* A runner's event, late or repeated as it may be.
LEMMA RunnerEventKeeps ==
  ASSUME IInv, NEW r \in Runner, NEW t \in Task, NEW e \in Event, RunnerEvent(r, t, e)
  PROVE  Kept
<1>1. \E w \in {"run", "push", "discard"} : <<w, r, t>> \in asked
  BY DEF RunnerEvent, Reports
<1>2. e # "requeued"
  BY DEF RunnerEvent, Reports
<1>3. Now.status[t] # "absent" /\ Good(Now)
  BY <1>1, NowGood, NowIs DEF Sound, IInv
<1> DEFINE a == ApplyEvent(Now, t, e)
<1>4. Handles(Now, a) /\ Served(a) /\ Deaths(Now, a)
  BY <1>2, <1>3, NowGood, EventHandles, EventServes, EventDeaths
<1>5. \/ Commit(a)
      \/ Commit(AutoApprovePlan(AutoApprove(a, t), t))
  BY DEF RunnerEvent
<1> HIDE DEF a
<1>6. CASE Commit(a)
  BY <1>4, <1>6, Committed DEF Kept
<1>7. CASE Commit(AutoApprovePlan(AutoApprove(a, t), t))
  <2> DEFINE b == AutoApprove(a, t)
             x == AutoApprovePlan(b, t)
  <2>1. Handles(Now, b) /\ Served(b) /\ Deaths(Now, b)
    BY <1>4, AutoApproveHandles
  <2> HIDE DEF b
  <2>2. Handles(Now, x) /\ Served(x) /\ Deaths(Now, x)
    <3>1. CASE b.status[t] = "awaiting_review" /\ Steps[t] # <<>>
      BY <2>1, <3>1, NowGood, PlanHandles DEF AutoApprovePlan
    <3>2. CASE ~(b.status[t] = "awaiting_review" /\ Steps[t] # <<>>)
      BY <2>1, <3>2 DEF AutoApprovePlan
    <3> QED
      BY <3>1, <3>2
  <2>3. Commit(x)
    BY <1>7 DEF b
  <2> HIDE DEF x
  <2> QED
    BY <2>2, <2>3, Committed DEF Kept
<1> QED
  BY <1>5, <1>6, <1>7

\* What is left of a runner's row when it registers again.
LEMMA HelloKeeps ==
  ASSUME IInv, NEW r \in Runner, NEW reported \in SUBSET Task, Hello(r, reported)
  PROVE  Kept
<1> DEFINE kept == Restored(Now, r, reported)
           S == running[r] \ kept
           y == [Now EXCEPT !.link[r] = "connected", !.running[r] = kept]
           ln == [link EXCEPT ![r] = "connected"]
           rn == [running EXCEPT ![r] = kept]
<1>1. PICK order \in Orders(S) : Commit(Schedule(LoseAll(y, order)))
  BY DEF Hello, RunnerHello
<1>2. /\ link \in [Runner -> {"absent", "grace", "connected"}]
      /\ running \in [Runner -> SUBSET Task] /\ Now \in Tables
  BY NowGood DEF IInv, TablesTyped
<1>3. kept \subseteq reported /\ kept \in SUBSET Task /\ S \in SUBSET Task
  BY <1>2 DEF Restored
<1>4. \A t \in kept : status[t] # "absent"
  BY <1>3, NowGood, NowIs DEF Hello, Sound
<1>5. \A t \in S : status[t] # "absent"
  BY <1>3, NowGood, NowIs DEF Sound
<1>6. /\ ln \in [Runner -> {"absent", "grace", "connected"}]
      /\ rn \in [Runner -> SUBSET Task]
  BY <1>2, <1>3
<1>7. /\ \A q \in Runner : ln[q] = IF q = r THEN "connected" ELSE link[q]
      /\ \A q \in Runner : rn[q] = IF q = r THEN kept ELSE running[q]
  BY <1>2
<1>8. y = [Now EXCEPT !.link = ln, !.running = rn]
  BY DEF Now
<1>9. \A t \in Task : /\ t \in running[r] /\ status[t] = "queued" /\ runner[t] = r /\ t \in reported
                      => t \in kept
  BY NowIs DEF Restored, StillRunning
<1>10. \A t \in Task : status[t] = "queued" /\ runner[t] = r => t \in running[r]
  BY NowGood, NowIs, RunnersAreNumbers DEF Unheld
<1> HIDE DEF y, ln, rn, kept
<1>11. y \in Tables
  BY <1>2, <1>6, <1>8 DEF Tables
<1>12. /\ y.created = created /\ y.status = status /\ y.changed = {} /\ y.runner = runner
       /\ y.pin = pin /\ y.link = ln /\ y.running = rn /\ y.asked = asked
       /\ y.requeued = requeued
  BY <1>2, <1>8, NowIs DEF Tables
<1>13. Sound(y)
  BY <1>4, <1>7, <1>12, NowGood, NowIs DEF Sound
<1>14. Unheld(y) \subseteq S
  <2> SUFFICES ASSUME NEW t \in Unheld(y) PROVE t \in S
    OBVIOUS
  <2>1. t \in Task /\ status[t] = "queued" /\ runner[t] # NoRunner /\ runner[t] \in Runner
    BY <1>12, NowGood, NowIs DEF Unheld, IInv, TablesTyped
  <2>2. link[runner[t]] # "absent" /\ t \in running[runner[t]]
    BY <2>1, NowGood, NowIs DEF Unheld
  <2>3. ln[runner[t]] = "absent" \/ t \notin rn[runner[t]]
    BY <1>12 DEF Unheld
  <2>4. runner[t] = r /\ t \notin kept
    BY <1>7, <2>1, <2>2, <2>3
  <2> QED
    BY <2>2, <2>4
<1> HIDE DEF S
<1> DEFINE z == LoseAll(y, order)
<1>15. Handles(Now, z) /\ Deaths(Now, z)
  BY <1>3, <1>5, <1>11, <1>12, <1>13, <1>14, NowIs, LostHandles DEF IInv
<1> HIDE DEF z
<1>16. Handles(Now, Schedule(z)) /\ Served(Schedule(z)) /\ Deaths(Now, Schedule(z))
  BY <1>2, <1>15, ScheduledHandles, ScheduledServes DEF Handles
<1>17. Commit(Schedule(z))
  BY <1>1 DEF z
<1> QED
  BY <1>16, <1>17, Committed DEF Kept

\* A runner that is forgotten, whether it said goodbye or its grace ran out.
LEMMA RemoveRunnerKeeps ==
  ASSUME IInv, NEW r \in Runner, NEW order \in Orders(running[r]),
         Commit(RemoveRunner(Now, r, order))
  PROVE  Kept
<1> DEFINE y == [Now EXCEPT !.link[r] = "absent", !.running[r] = {}]
           ln == [link EXCEPT ![r] = "absent"]
           rn == [running EXCEPT ![r] = {}]
<1>1. Commit(LoseAll(y, order))
  BY DEF RemoveRunner
<1>2. /\ link \in [Runner -> {"absent", "grace", "connected"}]
      /\ running \in [Runner -> SUBSET Task] /\ Now \in Tables
  BY NowGood DEF IInv, TablesTyped
<1>3. running[r] \in SUBSET Task /\ \A t \in running[r] : status[t] # "absent"
  BY <1>2, NowGood, NowIs DEF Sound
<1>4. /\ ln \in [Runner -> {"absent", "grace", "connected"}]
      /\ rn \in [Runner -> SUBSET Task]
  BY <1>2
<1>5. /\ \A q \in Runner : ln[q] = IF q = r THEN "absent" ELSE link[q]
      /\ \A q \in Runner : rn[q] = IF q = r THEN {} ELSE running[q]
  BY <1>2
<1>6. y = [Now EXCEPT !.link = ln, !.running = rn]
  BY DEF Now
<1> HIDE DEF y, ln, rn
<1>7. y \in Tables
  BY <1>2, <1>4, <1>6 DEF Tables
<1>8. /\ y.created = created /\ y.status = status /\ y.changed = {} /\ y.runner = runner
      /\ y.pin = pin /\ y.link = ln /\ y.running = rn /\ y.asked = asked
      /\ y.requeued = requeued /\ y.result = result
  BY <1>2, <1>6, NowIs DEF Tables
<1>9. Sound(y) /\ Served(y)
  <2>1. Sound(y)
    BY <1>5, <1>8, NowGood, NowIs DEF Sound
  <2>2. \A t \in Task : /\ IsReady(y, t) <=> IsReady(Now, t)
                        /\ Undecided(y, t) <=> Undecided(Now, t)
    BY <1>8, NowIs DEF IsReady, Undecided
  <2>3. Served(y)
    BY <1>2, <1>5, <1>7, <1>8, <2>2, NowGood, NowIs, ServedStays
  <2> QED
    BY <2>1, <2>3
<1>10. Unheld(y) \subseteq running[r]
  <2> SUFFICES ASSUME NEW t \in Unheld(y) PROVE t \in running[r]
    OBVIOUS
  <2>1. t \in Task /\ status[t] = "queued" /\ runner[t] # NoRunner /\ runner[t] \in Runner
    BY <1>8, NowGood, NowIs DEF Unheld, IInv, TablesTyped
  <2>2. link[runner[t]] # "absent" /\ t \in running[runner[t]]
    BY <2>1, NowGood, NowIs DEF Unheld
  <2>3. ln[runner[t]] = "absent" \/ t \notin rn[runner[t]]
    BY <1>8 DEF Unheld
  <2>4. runner[t] = r
    BY <1>5, <2>1, <2>2, <2>3
  <2> QED
    BY <2>2, <2>4
<1> DEFINE z == LoseAll(y, order)
<1>11. Handles(Now, z) /\ Served(z) /\ Deaths(Now, z)
  BY <1>3, <1>7, <1>8, <1>9, <1>10, NowIs, LostHandles DEF IInv
<1> HIDE DEF z
<1>12. Commit(z)
  BY <1>1 DEF z
<1> QED
  BY <1>11, <1>12, Committed DEF Kept

\* A socket that closes.
LEMMA DisconnectKeeps ==
  ASSUME IInv, NEW r \in Runner, Disconnect(r)
  PROVE  Kept
<1> DEFINE ln == [link EXCEPT ![r] = "grace"]
           x == [Now EXCEPT !.link = ln]
<1>1. /\ link[r] = "connected" /\ link' = ln
      /\ UNCHANGED <<created, status, runner, pin, result, requeued, running, asked, disk>>
  BY DEF Disconnect
<1>2. /\ link \in [Runner -> {"absent", "grace", "connected"}]
      /\ disk \in [Task -> Record] /\ Now \in Tables
  BY NowGood DEF IInv, TablesTyped
<1>3. ln \in [Runner -> {"absent", "grace", "connected"}]
  BY <1>2
<1>4. \A q \in Runner : ln[q] = "absent" <=> link[q] = "absent"
  BY <1>1, <1>2
<1>5. /\ x.created = created /\ x.status = status /\ x.runner = runner /\ x.pin = pin
      /\ x.result = result /\ x.requeued = requeued /\ x.link = ln /\ x.running = running
      /\ x.asked = asked /\ x.changed = {}
  BY DEF Now
<1> HIDE DEF ln
<1>6. x \in Tables
  BY <1>2, <1>3 DEF Tables
<1> HIDE DEF x
<1>7. Commit(x)
  BY <1>1, <1>2, <1>5 DEF Commit, Save
<1>8. Sound(x)
  BY <1>4, <1>5, NowGood, NowIs DEF Sound
<1>9. Unheld(x) = {}
  <2> SUFFICES ASSUME NEW t \in Unheld(x) PROVE FALSE
    OBVIOUS
  <2>1. t \in Task /\ status[t] = "queued" /\ runner[t] # NoRunner /\ runner[t] \in Runner
    BY <1>5, NowGood, NowIs DEF Unheld, IInv, TablesTyped
  <2>2. ln[runner[t]] = "absent" \/ t \notin running[runner[t]]
    BY <1>5 DEF Unheld
  <2>3. link[runner[t]] = "absent" \/ t \notin running[runner[t]]
    BY <1>4, <2>1, <2>2
  <2> QED
    BY <2>1, <2>3, NowGood, NowIs DEF Unheld
<1>10. Handles(Now, x)
  BY <1>5, <1>6, <1>8, <1>9, TasksUntouched
<1>11. Served(x)
  <2>1. \A t \in Task : /\ IsReady(x, t) <=> IsReady(Now, t)
                        /\ Undecided(x, t) <=> Undecided(Now, t)
    BY <1>5, NowIs DEF IsReady, Undecided
  <2>2. \A q \in Runner : ln[q] = "connected" => link[q] = "connected"
    BY <1>2 DEF ln
  <2> QED
    BY <1>2, <1>5, <1>6, <2>1, <2>2, NowGood, NowIs, ServedStays
<1>12. Deaths(Now, x)
  BY <1>5, NowIs, NobodyDies
<1> QED
  BY <1>7, <1>10, <1>11, <1>12, Committed DEF Kept

\* Starting again from disk, where a stored task may be behind (DiskFollows).
LEMMA RestartKeeps ==
  ASSUME IInv, Restart
  PROVE  Kept
<1> DEFINE rec(t) == Restore(disk[t])
           x == [created |-> created,
                 status |-> [t \in Task |-> rec(t).status],
                 runner |-> [t \in Task |-> rec(t).runner],
                 pin |-> [t \in Task |-> rec(t).pin],
                 result |-> [t \in Task |-> rec(t).result],
                 requeued |-> [t \in Task |-> rec(t).requeued],
                 link |-> [r \in Runner |-> "absent"],
                 running |-> [r \in Runner |-> {}],
                 asked |-> asked,
                 changed |-> Task]
<1>1. /\ status' = x.status /\ runner' = x.runner /\ pin' = x.pin /\ result' = x.result
      /\ requeued' = x.requeued /\ disk' = [t \in Task |-> rec(t)]
      /\ link' = x.link /\ running' = x.running /\ created' = created /\ asked' = asked
  BY DEF Restart
<1>2. disk \in [Task -> Record] /\ Now \in Tables
  BY NowGood DEF IInv, TablesTyped
<1>3. \A t \in Task :
        /\ rec(t) \in Record
        /\ rec(t).pin = disk[t].pin
        /\ rec(t).status = IF disk[t].status = "running" THEN "failed" ELSE disk[t].status
        /\ rec(t).runner = IF disk[t].status = "queued" THEN NoRunner ELSE disk[t].runner
  BY <1>2 DEF Restore, Record, Status
<1> HIDE DEF rec
<1>4. x \in Tables
  <2>1. /\ created \in Seq(Task) /\ asked \in SUBSET ({"run", "push", "discard"} \X Runner \X Task)
    BY DEF IInv, TablesTyped
  <2>2. /\ [t \in Task |-> rec(t).status] \in [Task -> Status \union {"absent"}]
        /\ [t \in Task |-> rec(t).runner] \in [Task -> Runner \union {NoRunner}]
        /\ [t \in Task |-> rec(t).pin] \in [Task -> Runner \union {NoRunner}]
        /\ [t \in Task |-> rec(t).result] \in [Task -> BOOLEAN]
        /\ [t \in Task |-> rec(t).requeued] \in [Task -> Nat]
    BY <1>3 DEF Record
  <2>3. /\ [r \in Runner |-> "absent"] \in [Runner -> {"absent", "grace", "connected"}]
        /\ [r \in Runner |-> {}] \in [Runner -> SUBSET Task]
    OBVIOUS
  <2> QED
    BY <2>1, <2>2, <2>3 DEF Tables
<1>5. \A t \in Task : Stored(x, t) = rec(t)
  <2> SUFFICES ASSUME NEW t \in Task PROVE Stored(x, t) = rec(t)
    OBVIOUS
  <2>1. Stored(x, t) = [status |-> rec(t).status, runner |-> rec(t).runner, pin |-> rec(t).pin,
                        result |-> rec(t).result, requeued |-> rec(t).requeued]
    BY DEF Stored
  <2>2. rec(t) \in Record
    BY <1>3
  <2> QED
    BY <2>1, <2>2 DEF Record
<1>6. /\ x.created = created /\ x.asked = asked /\ x.changed = Task
      /\ \A t \in Task : /\ x.status[t] = rec(t).status /\ x.runner[t] = rec(t).runner
                         /\ x.pin[t] = rec(t).pin
      /\ \A r \in Runner : x.link[r] = "absent" /\ x.running[r] = {}
  OBVIOUS
<1> HIDE DEF x
<1>7. Commit(x)
  <2>1. disk' = [t \in Task |-> IF t \in x.changed THEN Stored(x, t) ELSE disk[t]]
    BY <1>1, <1>5, <1>6
  <2> QED
    BY <1>1, <1>6, <2>1 DEF Commit, Save
<1>8. \A t \in Task :
        /\ disk[t].status = status[t] \/ (disk[t].status = "queued" /\ status[t] = "failed")
        /\ disk[t].runner # NoRunner =>
             disk[t].pin \in {NoRunner, disk[t].runner} /\ <<"run", disk[t].runner, t>> \in asked
  BY DEF IInv, DiskFollows
<1>9. \A t \in Task : x.status[t] = "absent" <=> status[t] = "absent"
  <2> SUFFICES ASSUME NEW t \in Task
               PROVE  x.status[t] = "absent" <=> status[t] = "absent"
    OBVIOUS
  <2>1. x.status[t] = IF disk[t].status = "running" THEN "failed" ELSE disk[t].status
    BY <1>3, <1>6
  <2>2. disk[t].status = status[t] \/ (disk[t].status = "queued" /\ status[t] = "failed")
    BY <1>8
  <2> QED
    BY <2>1, <2>2
<1>10. Sound(x)
  <2>1. \A t \in Task : x.runner[t] # NoRunner =>
          x.pin[t] \in {NoRunner, x.runner[t]} /\ <<"run", x.runner[t], t>> \in x.asked
    BY <1>3, <1>6, <1>8
  <2>2. \A t \in Task : x.status[t] # "absent" => \E k \in 1..Len(x.created) : x.created[k] = t
    BY <1>6, <1>9, NowGood, NowIs DEF Sound
  <2>3. \A w \in {"run", "push", "discard"}, r \in Runner, t \in Task :
          <<w, r, t>> \in x.asked => x.status[t] # "absent"
    BY <1>6, <1>9, NowGood, NowIs DEF Sound
  <2> QED
    BY <1>6, <2>1, <2>2, <2>3 DEF Sound
<1>11. Unheld(x) = {}
  BY <1>3, <1>6 DEF Unheld
<1>12. Moves(Now, x)
  <2> SUFFICES ASSUME NEW t \in Task PROVE x.status[t] \in Lifecycle!After(status[t])
    BY NowIs DEF Moves
  <2>1. status[t] \in Lifecycle!After(status[t])
    BY NowGood, NowIs DEF Handles, Moves
  <2>2. x.status[t] = IF disk[t].status = "running" THEN "failed" ELSE disk[t].status
    BY <1>3, <1>6
  <2>3. CASE status[t] = "running" /\ disk[t].status = "running"
    BY <2>2, <2>3 DEF Lifecycle!After, Lifecycle!Retryable, Lifecycle!Status
  <2>4. CASE status[t] = "failed" /\ disk[t].status = "queued"
    BY <2>2, <2>4 DEF Lifecycle!After, Lifecycle!Retryable, Lifecycle!Status
  <2>5. CASE status[t] # "running" /\ disk[t].status = status[t]
    BY <2>1, <2>2, <2>5
  <2> QED
    BY <1>8, <2>3, <2>4, <2>5
<1>13. StepsWait(x)
  <2>1. Children \subseteq Task
    BY ParametersAreTyped DEF Children, StepsOf
  <2> QED
    BY <1>4, <1>9, <1>12, <2>1, NowGood, NowIs, StepsKeepWaiting
<1>14. HandsOver(Now, x) /\ FindsSlots(Now, x)
  <2>1. \A r \in Runner : Cardinality(x.running[r]) <= Slots[r]
    <3>1. Cardinality({}) = 0
      BY FS_EmptySet
    <3>2. \A r \in Runner : 0 <= Slots[r]
      BY ParametersAreTyped
    <3>3. \A r \in Runner : x.running[r] = {}
      BY <1>6
    <3> QED
      BY <3>1, <3>2, <3>3
  <2> QED
    BY <1>6, <2>1, NowIs DEF HandsOver, FindsSlots
<1>15. Handles(Now, x)
  BY <1>4, <1>6, <1>10, <1>11, <1>12, <1>13, <1>14, NowIs DEF Handles, Good
<1>16. Served(x)
  BY <1>6 DEF Served, Fit, CanRun, IsConnected
<1> QED
  BY <1>7, <1>15, <1>16, Committed DEF Kept

-----------------------------------------------------------------------------
\* Every step.

\* It holds at the start,
LEMMA InitIInv == Init => IInv
<1> SUFFICES ASSUME Init PROVE IInv
  OBVIOUS
<1>1. /\ created = <<>> /\ status = [t \in Task |-> "absent"]
      /\ runner = [t \in Task |-> NoRunner] /\ pin = PinnedTo
      /\ result = [t \in Task |-> FALSE] /\ requeued = [t \in Task |-> 0]
      /\ link = [r \in Runner |-> "absent"] /\ running = [r \in Runner |-> {}]
      /\ asked = {} /\ disk = [t \in Task |-> Stored(Now, t)]
  BY DEF Init
<1>2. \A t \in Task : /\ Stored(Now, t) \in Record
                      /\ Stored(Now, t).status = "absent" /\ Stored(Now, t).runner = NoRunner
  BY <1>1, ParametersAreTyped DEF Stored, Now, Record
<1>3. TablesTyped
  BY <1>1, <1>2, ParametersAreTyped DEF TablesTyped
<1>4. Sound(Now) /\ Unheld(Now) = {} /\ StepsWait(Now) /\ Served(Now)
  <2>1. Sound(Now)
    BY <1>1, NowIs DEF Sound
  <2>2. Unheld(Now) = {}
    BY <1>1, NowIs DEF Unheld
  <2>3. StepsWait(Now)
    BY <1>1, NowIs, ParametersAreTyped DEF StepsWait, StepsOf
  <2>4. Served(Now)
    BY <1>1, NowIs DEF Served, IsReady
  <2> QED
    BY <2>1, <2>2, <2>3, <2>4
<1>5. DiskFollows
  BY <1>1, <1>2 DEF DiskFollows
<1> QED
  BY <1>3, <1>4, <1>5, NowTyped DEF IInv, Good

\* after every step,
LEMMA NextKeeps == IInv /\ Next => Kept
<1> SUFFICES ASSUME IInv, Next PROVE Kept
  OBVIOUS
<1>1. ASSUME NEW t \in Task, CreateTask(t) PROVE Kept
  BY <1>1, CreateTaskKeeps
<1>2. ASSUME NEW t \in Task, Approve(t) \/ Reject(t) PROVE Kept
  BY <1>2, AskKeeps DEF Approve, Reject
<1>3. ASSUME NEW t \in Task, ApprovePlanTask(t) PROVE Kept
  BY <1>3, ApprovePlanTaskKeeps
<1>4. ASSUME NEW t \in Task, CancelQueued(t) PROVE Kept
  BY <1>4, CancelQueuedKeeps
<1>5. ASSUME NEW t \in Task, Message(t) PROVE Kept
  BY <1>5, MessageKeeps
<1>6. ASSUME NEW t \in Task, NEW into \in Runner \union {NoRunner}, RetryTask(t, into) PROVE Kept
  BY <1>6, RetryTaskKeeps
<1>7. ASSUME NEW t \in Task, MarkMerged(t) PROVE Kept
  BY <1>7, MarkMergedKeeps
<1>8. ASSUME NEW r \in Runner, NEW t \in Task, NEW e \in Event, RunnerEvent(r, t, e) PROVE Kept
  BY <1>8, RunnerEventKeeps
<1>9. ASSUME NEW r \in Runner, NEW reported \in SUBSET Task, Hello(r, reported) PROVE Kept
  BY <1>9, HelloKeeps
<1>10. ASSUME NEW r \in Runner, Disconnect(r) PROVE Kept
  BY <1>10, DisconnectKeeps
<1>11. ASSUME NEW r \in Runner, ExpireRunner(r) \/ Goodbye(r) PROVE Kept
  BY <1>11, RemoveRunnerKeeps DEF ExpireRunner, Goodbye
<1>12. CASE Restart
  BY <1>12, RestartKeeps
<1> QED
  BY <1>1, <1>2, <1>3, <1>4, <1>5, <1>6, <1>7, <1>8, <1>9, <1>10, <1>11, <1>12 DEF Next

\* and when nothing happens.
LEMMA StutterKeeps == IInv /\ UNCHANGED vars => IInv'
<1> SUFFICES ASSUME IInv, UNCHANGED vars PROVE IInv'
  OBVIOUS
<1>1. Now' = Now
  BY DEF Now, vars
<1>2. Good(Now') /\ Served(Now')
  BY <1>1 DEF IInv
<1>3. TablesTyped' /\ DiskFollows'
  BY DEF IInv, TablesTyped, DiskFollows, vars
<1> QED
  BY <1>2, <1>3 DEF IInv

\* The invariant holds at all times.
THEOREM Invariance == Spec => []IInv
<1>1. IInv /\ [Next]_vars => IInv'
  BY NextKeeps, StutterKeeps DEF Kept
<1> QED
  BY <1>1, InitIInv, PTL DEF Spec

\* Only runners say hello.
HeardTyped == heard \subseteq Runner

LEMMA HeardIsTyped == HeardTyped /\ [Next]_vars => HeardTyped'
<1> SUFFICES ASSUME heard \subseteq Runner, [Next]_vars PROVE heard' \subseteq Runner
  BY DEF HeardTyped
<1>1. ASSUME NEW r \in Runner, NEW reported \in SUBSET Task, Hello(r, reported)
      PROVE  heard' \subseteq Runner
  BY <1>1 DEF Hello
<1>2. CASE Restart
  BY <1>2 DEF Restart
<1>3. CASE UNCHANGED vars
  BY <1>3 DEF vars
<1> QED
  BY <1>1, <1>2, <1>3
  DEF Next, CreateTask, Approve, Reject, Ask, ApprovePlanTask, CancelQueued, Message,
      RetryTask, MarkMerged, RunnerEvent, Disconnect, ExpireRunner, Goodbye

\* The tables hold what their types say after any sequence of handlers, and a runner
\* that was forgotten (runner.rs, remove_runner) has nothing left in its running set.
THEOREM TypeCorrect == Spec => []TypeOK
<1>1. IInv => TablesTyped
  BY DEF IInv
<1>2. Init => HeardTyped
  BY DEF Init, HeardTyped
<1>3. TablesTyped /\ HeardTyped => TypeOK
  BY DEF TypeOK, HeardTyped
<1> QED
  BY <1>1, <1>2, <1>3, HeardIsTyped, Invariance, PTL DEF Spec

\* Every assignment `schedule` makes, and every one that a retry, a reassignment or a
\* restart leaves standing, is to a runner that the task's spec allows.
THEOREM PinsRespected == Spec => []AssignedWherePinned
<1>1. IInv => AssignedWherePinned
  BY NowGood, NowIs DEF Sound, AssignedWherePinned
<1> QED
  BY <1>1, Invariance, PTL

\* An assigned task that has not started is always in its runner's running set, so that
\* when the runner is lost (hello, goodbye, grace at its end) the task is lost with it
\* and does not wait for ever.
THEOREM NoneOrphaned == Spec => []AssignedIsHeld
<1>1. IInv => AssignedIsHeld
  BY NowGood, NowIs DEF Unheld, AssignedIsHeld
<1> QED
  BY <1>1, Invariance, PTL

\* No handler, whatever cascade of frees and retries it runs through, newly assigns a
\* task and leaves its runner past its slots.
THEOREM SlotsFit == Spec => AssignmentsFitSlots
<1>1. IInv /\ [Next]_vars => [SlotsRespected]_vars
  BY NextKeeps DEF Kept
<1>2. [SlotsRespected]_vars =>
        [\A t \in Task, r \in Runner :
           /\ runner'[t] = r /\ runner[t] # r
           => Cardinality(running'[r]) <= Slots[r]]_vars
  BY DEF SlotsRespected
<1> QED
  BY <1>1, <1>2, Invariance, PTL DEF Spec, AssignmentsFitSlots

\* Every handler that frees a slot, meets a dependency, queues a task or registers a
\* runner has called `schedule` late enough: between handlers no task waits that could
\* start on a connected runner within the budget (but for the late conflict that
\* NothingLeftWaiting names).
THEOREM NobodyWaitsForNothing == Spec => []NothingLeftWaiting
<1>1. IInv => NothingLeftWaiting
  <2> SUFFICES ASSUME IInv, NEW t \in Task, IsReady(Now, t), ~OverDailyBudget(Now),
                      \A d \in Deps[t] : status[d] \notin {"conflicted", "changes_requested"}
               PROVE  Candidate(Now, t) = NoRunner
    BY DEF NothingLeftWaiting
  <2>1. ~Undecided(Now, t)
    BY NowIs DEF Undecided
  <2>2. Fit(Now, t, NoRunner) = {}
    BY <2>1, NowGood DEF Served
  <2> QED
    BY <2>2 DEF Candidate, CandidateExcluding, Fit
<1> QED
  BY <1>1, Invariance, PTL

\* fail_dependents, which runs over the tasks as they are when it comes to them and calls
\* itself through apply_event, reaches everything queued behind a death in that same
\* handler, but for what a policy has queued again; only a restart does not look.
THEOREM DeathsReachDependents == Spec => DeathEndsDependents
<1>1. IInv /\ [Next]_vars => [Restart \/ DeathsFollowed]_vars
  BY NextKeeps DEF Kept
<1>2. [Restart \/ DeathsFollowed]_vars =>
        [Restart \/ \A d, t \in Task :
           /\ d \in Deps[t]
           /\ status[d] \notin Dead /\ status'[d] \in Dead
           /\ status[t] = "queued" /\ status'[t] = "queued"
           => requeued'[t] > requeued[t]]_vars
  BY DEF DeathsFollowed
<1> QED
  BY <1>1, <1>2, Invariance, PTL DEF Spec, DeathEndsDependents

\* The handlers implement the lifecycle of TaskLifecycle.tla: every step moves every task
\* as that allows, and hands one out only once its dependencies are met.
THEOREM Implementation == Spec => ImplementsLifecycle
<1>1. Init => Lifecycle!Init
  BY DEF Init, Lifecycle!Init
<1>2. IInv /\ [Next]_vars => [Lifecycle!Next]_Lifecycle!vars
  <2>1. UNCHANGED vars => UNCHANGED Lifecycle!vars
    BY DEF vars, Lifecycle!vars
  <2> QED
    BY <2>1, NextKeeps DEF Kept
<1> QED
  BY <1>1, <1>2, Invariance, PTL DEF Spec, ImplementsLifecycle, Lifecycle!Spec

-----------------------------------------------------------------------------
\* What the lifecycle itself keeps, which the handlers therefore keep too.

\* The lifecycle states the rules over again by the same words.
LEMMA SameRules ==
  /\ Lifecycle!Status = Status
  /\ \A c, st : Lifecycle!Met(c, st) = Met(c, st)
  BY DEF Lifecycle!Status, Status, Lifecycle!Met, Met

\* What one step of the lifecycle cannot undo: the approval, or the merge, that a
\* dependent was waiting for.
LEMMA MetStays ==
  ASSUME NEW c \in Condition, c # "completed",
         NEW st, NEW next \in Lifecycle!After(st),
         Met(c, st)
  PROVE  Met(c, next)
  BY DEF Condition, Met, Lifecycle!After, Lifecycle!Retryable

\* Its steps keep its types.
LEMMA LifecycleStepTyped == Lifecycle!TypeOK /\ [Lifecycle!Next]_Lifecycle!vars => Lifecycle!TypeOK'
  BY DEF Lifecycle!TypeOK, Lifecycle!Next, Lifecycle!Move, Lifecycle!HandOut, Lifecycle!vars

\* Statuses are statuses and only tasks are handed out.
THEOREM LifecycleTypeCorrect == Lifecycle!Spec => []Lifecycle!TypeOK
<1>1. Lifecycle!Init => Lifecycle!TypeOK
  BY DEF Lifecycle!Init, Lifecycle!TypeOK
<1> QED
  BY <1>1, LifecycleStepTyped, PTL DEF Lifecycle!Spec

\* Nothing after a task was handed to a runner takes back the approvals it was
\* handed out on: no retry, late event, cascade or restart.
THEOREM HandedOutInOrder == Lifecycle!Spec => []Lifecycle!DependenciesStand
<1> DEFINE Handed(q) == {t \in Task : \E r \in Runner : <<"run", r, t>> \in q}
<1>1. Lifecycle!Init => Lifecycle!DependenciesStand
  BY DEF Lifecycle!Init, Lifecycle!DependenciesStand
<1>2. Lifecycle!TypeOK /\ Lifecycle!DependenciesStand /\ [Lifecycle!Next]_Lifecycle!vars
        => Lifecycle!DependenciesStand'
  <2> SUFFICES ASSUME Lifecycle!DependenciesStand, [Lifecycle!Next]_Lifecycle!vars,
                      NEW t \in Handed(asked'), NEW d \in Deps[t], Needs[t] # "completed"
               PROVE  Met(Needs[t], status'[d])
    BY SameRules DEF Lifecycle!DependenciesStand
  <2>0. t \in Task /\ d \in Task /\ Needs[t] \in Condition
    BY SpecsAreTyped
  <2>1. CASE Lifecycle!Next
    <3>1. status'[d] \in Lifecycle!After(status[d])
      BY <2>0, <2>1 DEF Lifecycle!Next, Lifecycle!Move
    <3>2. CASE t \in Handed(asked)
      <4>1. Met(Needs[t], status[d])
        BY <3>2, SameRules DEF Lifecycle!DependenciesStand
      <4> QED
        BY <2>0, <3>1, <4>1, MetStays
    <3>3. CASE t \notin Handed(asked)
      <4>1. Met(Needs[t], status[d]) \/ Met(Needs[t], status'[d])
        BY <2>1, <3>3, SameRules DEF Lifecycle!Next, Lifecycle!HandOut
      <4> QED
        BY <2>0, <3>1, <4>1, MetStays
    <3> QED
      BY <3>2, <3>3
  <2>2. CASE UNCHANGED Lifecycle!vars
    BY <2>2, SameRules DEF Lifecycle!vars, Lifecycle!DependenciesStand
  <2> QED
    BY <2>1, <2>2
<1> QED
  BY <1>1, <1>2, LifecycleTypeCorrect, PTL DEF Lifecycle!Spec

\* So no runner is ever handed a task before what the task depends on is approved, or
\* merged when it waits for the merge, and no later handler takes that back.
THEOREM DependenciesStayMet == Spec => []DependenciesFirst
<1>1. Lifecycle!DependenciesStand => DependenciesFirst
  BY SameRules DEF Lifecycle!DependenciesStand, DependenciesFirst
<1> QED
  BY <1>1, Implementation, HandedOutInOrder, PTL DEF ImplementsLifecycle

=============================================================================
