--------------------------- MODULE RunnerRegistry ---------------------------
(***************************************************************************)
(* Which socket a runner's name belongs to (runner.rs, runner_ws.rs).  An  *)
(* agent that reconnects opens a new socket while the old one may still be *)
(* open, ending, or unnoticed; a runner whose socket ended stays registered *)
(* for a grace period, kept by a sleeping timer that nobody cancels.  Only *)
(* `conn_id` and `generation` tell the late ones from the current ones.    *)
(*                                                                         *)
(* A step is one critical section of the state mutex.  The tasks of the    *)
(* runner are in State.tla; here a runner is only its entry in the table.  *)
(* AgentRun.tla is the other side of the socket; the names here are apart  *)
(* from its own, so that RunnerProofs.tla speaks of both.                  *)
(*                                                                         *)
(*   conns       sockets accepted so far: NEXT_CONN_ID is conns + 1        *)
(*   open        sockets in their read loop, as [id, name]                 *)
(*   ending      sockets past the loop, their `disconnect` still to run    *)
(*   registered  the names in State.runners                                *)
(*   conn        RunnerConn.conn's conn_id, 0 for None                     *)
(*   generation  RunnerConn.generation                                     *)
(*   timers      sleeping grace timers                                     *)
(* and, kept only to state the properties,                                 *)
(*   left        how many disconnects each name has had; a timer carries   *)
(*               the number of its own                                     *)
(*   life        how many times the name entered the table; a timer        *)
(*               carries the life it was started in                        *)
(***************************************************************************)
EXTENDS Naturals

CONSTANTS
  Runner,   \* runner names
  MaxConns  \* bound: sockets accepted in a behaviour

ASSUME MaxConnsIsNat == MaxConns \in Nat

VARIABLES conns, open, ending, registered, conn, generation, timers, left, life

table == <<registered, conn, generation, life>>
registryVars == <<conns, open, ending, table, timers, left>>

Socket == [id : Nat \ {0}, name : Runner]
Timer == [name : Runner, generation : Nat, of : Nat, life : Nat]

RegistryInit ==
  /\ conns = 0
  /\ open = {}
  /\ ending = {}
  /\ registered = {}
  /\ conn = [r \in Runner |-> 0]
  /\ generation = [r \in Runner |-> 0]
  /\ timers = {}
  /\ left = [r \in Runner |-> 0]
  /\ life = [r \in Runner |-> 0]

\* Mutant of Remove: half of the entry stays.
RemoveKeepsConn(r) ==
  /\ registered' = registered \ {r}
  /\ generation' = [generation EXCEPT ![r] = 0]
  /\ UNCHANGED <<conn, life>>

\* A name that is not registered has no entry; its fields mean nothing and are 0.
Remove(r) ==
  /\ registered' = registered \ {r}
  /\ conn' = [conn EXCEPT ![r] = 0]
  /\ generation' = [generation EXCEPT ![r] = 0]
  /\ UNCHANGED life

-----------------------------------------------------------------------------

\* Mutant of Hello: a known name starts over at generation 1.
HelloStartsOver(r) ==
  /\ conns < MaxConns
  /\ conns' = conns + 1
  /\ open' = open \union {[id |-> conns + 1, name |-> r]}
  /\ registered' = registered \union {r}
  /\ conn' = [conn EXCEPT ![r] = conns + 1]
  /\ generation' = [generation EXCEPT ![r] = 1]
  /\ life' = [life EXCEPT ![r] = IF r \in registered THEN @ ELSE @ + 1]
  /\ UNCHANGED <<ending, timers, left>>

\* An authorised Hello: the socket takes the name, whoever had it.
Hello(r) ==
  /\ conns < MaxConns
  /\ conns' = conns + 1
  /\ open' = open \union {[id |-> conns + 1, name |-> r]}
  /\ registered' = registered \union {r}
  /\ conn' = [conn EXCEPT ![r] = conns + 1]
  /\ generation' = [generation EXCEPT ![r] = IF r \in registered THEN @ + 1 ELSE 1]
  /\ life' = [life EXCEPT ![r] = IF r \in registered THEN @ ELSE @ + 1]
  /\ UNCHANGED <<ending, timers, left>>

\* The socket closes, fails, or says nothing for READ_TIMEOUT.
SocketBreaks(s) ==
  /\ s \in open
  /\ open' = open \ {s}
  /\ ending' = ending \union {s}
  /\ UNCHANGED <<conns, table, timers, left>>

\* Mutant of Owns: any socket that once had the name may speak for it.
OwnsByName(s) == s.name \in registered

\* Whether the entry under the socket's name is still its own.
Owns(s) == s.name \in registered /\ conn[s.name] = s.id

\* runner_goodbye; the read loop ends with it.
runner_goodbye(s) ==
  /\ s \in open
  /\ open' = open \ {s}
  /\ ending' = ending \union {s}
  /\ IF Owns(s) THEN Remove(s.name) ELSE UNCHANGED table
  /\ UNCHANGED <<conns, timers, left>>

\* Mutants of Disconnect: the task ends without its cleanup; the timer is given the
\* generation from before the disconnect.
DisconnectSkipped(s) ==
  /\ s \in ending
  /\ ending' = ending \ {s}
  /\ UNCHANGED <<conns, open, table, timers, left>>

DisconnectOldTimer(s) ==
  /\ s \in ending
  /\ ending' = ending \ {s}
  /\ IF Owns(s)
     THEN LET r == s.name IN
            /\ conn' = [conn EXCEPT ![r] = 0]
            /\ generation' = [generation EXCEPT ![r] = @ + 1]
            /\ left' = [left EXCEPT ![r] = @ + 1]
            /\ timers' = timers \union {[name |-> r, generation |-> generation[r],
                                         of |-> left[r] + 1, life |-> life[r]]}
            /\ UNCHANGED <<registered, life>>
     ELSE UNCHANGED <<table, timers, left>>
  /\ UNCHANGED <<conns, open>>

\* `disconnect`, and the grace timer it starts.
Disconnect(s) ==
  /\ s \in ending
  /\ ending' = ending \ {s}
  /\ IF Owns(s)
     THEN LET r == s.name IN
            /\ conn' = [conn EXCEPT ![r] = 0]
            /\ generation' = [generation EXCEPT ![r] = @ + 1]
            /\ left' = [left EXCEPT ![r] = @ + 1]
            /\ timers' = timers \union {[name |-> r, generation |-> generation[r] + 1,
                                         of |-> left[r] + 1, life |-> life[r]]}
            /\ UNCHANGED <<registered, life>>
     ELSE UNCHANGED <<table, timers, left>>
  /\ UNCHANGED <<conns, open>>

\* Whether a timer that wakes now removes the entry.
Hits(tm) ==
  /\ tm.name \in registered
  /\ conn[tm.name] = 0
  /\ generation[tm.name] = tm.generation

\* The timer wakes after GRACE and calls expire_runner.  Timers sleep as long, but
\* two that wake together take the mutex in either order.
expire_runner(tm) ==
  /\ tm \in timers
  /\ timers' = timers \ {tm}
  /\ IF Hits(tm) THEN Remove(tm.name) ELSE UNCHANGED table
  /\ UNCHANGED <<conns, open, ending, left>>

RegistryNext ==
  \/ \E r \in Runner : Hello(r)
  \/ \E s \in open : SocketBreaks(s) \/ runner_goodbye(s)
  \/ \E s \in ending : Disconnect(s)
  \/ \E tm \in timers : expire_runner(tm)

RegistrySpec == RegistryInit /\ [][RegistryNext]_registryVars

\* A task past its read loop runs its cleanup, and a sleep ends.
FairRegistrySpec ==
  /\ RegistrySpec
  /\ WF_registryVars(\E s \in ending : Disconnect(s))
  /\ WF_registryVars(\E tm \in timers : expire_runner(tm))

-----------------------------------------------------------------------------

\* An entry has a generation from 1 up, and nothing of one is left when it is gone.
RegistryTyped ==
  /\ conns \in Nat
  /\ open \subseteq Socket
  /\ ending \subseteq Socket
  /\ registered \subseteq Runner
  /\ conn \in [Runner -> Nat]
  /\ generation \in [Runner -> Nat]
  /\ timers \subseteq Timer
  /\ left \in [Runner -> Nat]
  /\ life \in [Runner -> Nat]
  /\ \A r \in registered : generation[r] > 0
  /\ \A r \in Runner \ registered : conn[r] = 0 /\ generation[r] = 0

\* A connected runner has a socket that is still there to disconnect it: no entry
\* is left to a socket whose cleanup has run, which would keep it for ever.
ConnectedHasSocket ==
  \A r \in Runner : conn[r] # 0 =>
    r \in registered /\ [id |-> conn[r], name |-> r] \in open \union ending

\* A runner in its grace period has the timer of that very disconnect asleep, so
\* its tasks are not kept for ever, however often it came back in between.
GraceHasTimer ==
  \A r \in registered : conn[r] = 0 =>
    \E tm \in timers : /\ tm.name = r
                       /\ tm.generation = generation[r]
                       /\ tm.of = left[r]

\* Within one stay in the table a timer only ever hits the disconnect it was
\* started for: coming back, or coming back and leaving again, outdates it.
TimerHitsItsOwn ==
  \A tm \in timers :
    Hits(tm) /\ tm.life = life[tm.name] => tm.of = left[tm.name]

\* A name only loses its socket by that socket's own end: a late cleanup or
\* goodbye of a replaced socket never takes the newer one down.
OnlyItsOwnEnd ==
  [][\A r \in Runner :
       conn[r] # 0 /\ conn'[r] = 0 => [id |-> conn[r], name |-> r] \notin open']_registryVars

\* The grace period of a runner that stays away ends.
GraceEnds ==
  \A r \in Runner :
    (r \in registered /\ conn[r] = 0) ~> (r \notin registered \/ conn[r] # 0)

=============================================================================
