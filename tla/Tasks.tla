------------------------------- MODULE Tasks -------------------------------
(***************************************************************************)
(* The task pool (internal/engine/tasks.go): tasks are created, taken      *)
(* under a lease that runs out, finished or returned to the pool; workers  *)
(* without work wait for a task of their role.  Handlers hold the engine's *)
(* mutex; WaitForTask does not between its steps.                          *)
(*                                                                         *)
(* `stored` is the pool New would fold from the journal.  Leases are kept  *)
(* as the ticks they have left.  Roles are the only permission here.       *)
(***************************************************************************)
EXTENDS Integers, FiniteSets

CONSTANTS
  Actor, Task, Nobody,
  Waiter,    \* the actors that poll for work with wait_for_task
  RoleOf,    \* the role of each actor, and the role each task is for
  Keyed,     \* tasks created under an idempotency key (workflow, schedules)
  TTL,       \* ticks a lease lasts
  Second,    \* ticks in a second, the precision of a journaled lease
  MaxLost    \* bound: tasks with a stored append answered with an error

ASSUME TasksAssumption ==
  /\ Nobody \notin Actor /\ Waiter \subseteq Actor /\ Keyed \subseteq Task
  /\ Second \in Nat \ {0} /\ TTL \in Nat /\ TTL >= Second

VARIABLES
  live,      \* the pool in memory
  stored,    \* the pool a restart would fold from the journal
  phase,     \* ticks since the last full second
  at,        \* where each actor is in WaitForTask
  missed,    \* tasks that opened without waking the actor since it looked
  told,      \* what is left of the leases actors were told they have
  cut,       \* leases that were read back from the journal
  unheard    \* tasks with an append that was stored and answered with an error

vars == <<live, stored, phase, at, missed, told, cut, unheard>>
waiting == <<at, missed>>

NoTask == [status |-> "none", by |-> Nobody, left |-> 0]
Open == [status |-> "open", by |-> Nobody, left |-> 0]
Taken(c, left) == [status |-> "taken", by |-> c, left |-> left]
Finished(task, status) == [status |-> status, by |-> task.by, left |-> 0]

(* Mutant: the lease is not in the payload, a restart reads it as over.    *)
LeaseForgotten(left) == 0

(* A lease that ends `left` ticks from now, written in whole seconds.      *)
Journaled(left) == left - ((phase + left) % Second)

Lose(t) ==
  /\ Cardinality(unheard) < MaxLost
  /\ unheard' = unheard \cup {t}

Init ==
  /\ live = [t \in Task |-> NoTask] /\ stored = [t \in Task |-> NoTask]
  /\ phase = 0
  /\ at = [c \in Waiter |-> "out"] /\ missed = [c \in Waiter |-> {}]
  /\ told = [c \in Actor |-> [t \in Task |-> 0]]
  /\ cut = {} /\ unheard = {}

-----------------------------------------------------------------------------
(* Mutant: a value is sent instead of the channel closed: it reaches one   *)
(* waiter, or nobody if none is ready to receive.                          *)
WakeOne(t) ==
  /\ at' \in {at} \cup {[at EXCEPT ![c] = "look"] :
                        c \in {c \in Waiter : at[c] = "blocked"}}
  /\ missed' = [c \in Waiter |-> IF at[c] = "signal" THEN missed[c] \cup {t}
                                 ELSE missed[c]]

(* wakeTaskWaiters closes the channel all blocked waiters select on.  Who  *)
(* has looked and has no channel yet is not woken.                         *)
Wake(t) ==
  /\ at' = [c \in Waiter |-> IF at[c] = "blocked" THEN "look" ELSE at[c]]
  /\ missed' = [c \in Waiter |-> IF at[c] = "signal" THEN missed[c] \cup {t}
                                ELSE missed[c]]

(* createTask.  A repeated key finds the task that is stored; it enters    *)
(* the pool then if the first answer was lost.                             *)
Create(t) ==
  /\ live[t] = NoTask
  /\ \/ /\ \/ stored[t] = NoTask /\ stored' = [stored EXCEPT ![t] = Open]
           \/ stored[t] # NoTask /\ t \in Keyed /\ UNCHANGED stored
        /\ live' = [live EXCEPT ![t] = Open]
        /\ Wake(t) /\ UNCHANGED unheard
     \/ /\ stored[t] = NoTask /\ stored' = [stored EXCEPT ![t] = Open]
        /\ Lose(t) /\ UNCHANGED <<live, waiting>>
  /\ UNCHANGED <<phase, told, cut>>

(* Mutant: a lease is over whatever became of the task. *)
DueAnyway(t) == live[t].status \notin {"none", "open"} /\ live[t].left = 0

Due(t) == live[t].status = "taken" /\ live[t].left = 0

(* Mutant: the task is open again and still names its last holder.         *)
ReopenedHeld(pool, D) ==
  [t \in Task |-> IF t \in D THEN [pool[t] EXCEPT !.status = "open", !.left = 0]
                  ELSE pool[t]]

(* expireIfDue, for the tasks of D: they return to the pool whether or not *)
(* the append succeeds, and nobody is woken.                               *)
Reopened(pool, D) ==
  [t \in Task |-> IF t \in D THEN Open ELSE pool[t]]

NobodyWakes(D) ==
  /\ missed' = [c \in Waiter |-> IF at[c] \in {"signal", "blocked"}
                                THEN missed[c] \cup D ELSE missed[c]]
  /\ UNCHANGED at

Expire(D) ==
  /\ D # {}
  /\ live' = Reopened(live, D)
  /\ \E ok \in SUBSET D : stored' = Reopened(stored, ok)
  /\ NobodyWakes(D)
  /\ UNCHANGED <<phase, told, cut, unheard>>

(* Mutant: an error of the append is taken for the lease. *)
TakeUnheard(c, t) ==
  LET due == {t} \cap {u \in Task : Due(u)}
      pool == Reopened(live, due)
  IN /\ pool[t].status = "open" /\ RoleOf[c] = RoleOf[t]
     /\ live' = [pool EXCEPT ![t] = Taken(c, TTL)]
     /\ \E ok \in SUBSET due :
          stored' \in {Reopened(stored, ok),
             [Reopened(stored, ok) EXCEPT ![t] = Taken(c, Journaled(TTL))]}
     /\ told' = [told EXCEPT ![c][t] = TTL]
     /\ cut' = cut \ {<<c, t>>}
     /\ UNCHANGED <<phase, waiting, unheard>>

(* TakeTask: expire the lease if it is over, then take the open task.  When *)
(* the task is not open, or for another role, or the append fails, the     *)
(* expiry stays.                                                           *)
Take(c, t) ==
  LET due == {t} \cap {u \in Task : Due(u)}
      pool == Reopened(live, due)
  IN \/ /\ pool[t].status = "open" /\ RoleOf[c] = RoleOf[t]
        /\ \E ok \in SUBSET due :
             stored' = [Reopened(stored, ok) EXCEPT
                          ![t] = Taken(c, Journaled(TTL))]
        /\ \/ /\ live' = [pool EXCEPT ![t] = Taken(c, TTL)]
              /\ told' = [told EXCEPT ![c][t] = TTL]
              /\ cut' = cut \ {<<c, t>>}
              /\ UNCHANGED <<waiting, unheard>>
           \/ /\ live' = pool
              /\ Lose(t) /\ NobodyWakes(due)
              /\ UNCHANGED <<told, cut>>
        /\ UNCHANGED phase
     \/ Expire(due)

(* finishTask (CompleteTask, FailTask): for the holder of a lease that is  *)
(* not over.                                                               *)
Finish(c, t, status) ==
  \/ /\ ~Due(t) /\ live[t].status = "taken" /\ live[t].by = c
     /\ stored' = [stored EXCEPT ![t] = Finished(@, status)]
     /\ \/ /\ live' = [live EXCEPT ![t] = Finished(@, status)]
           /\ told' = [told EXCEPT ![c][t] = 0]
           /\ UNCHANGED unheard
        \/ Lose(t) /\ UNCHANGED <<live, told>>
     /\ UNCHANGED <<phase, waiting, cut>>
  \/ Due(t) /\ Expire({t})

(* Mutant: leases end by timers TakeTask sets, which a restart loses.      *)
SweepTimed == Expire({t \in Task : Due(t) /\ <<live[t].by, t>> \notin cut})

(* The sweep of overdue leases at the end of Tick. *)
Sweep == Expire({t \in Task : Due(t)})

-----------------------------------------------------------------------------
(* WaitForTask.  Look: return if there is a task for the actor's role.     *)
Wait(c) ==
  /\ at[c] = "out"
  /\ at' = [at EXCEPT ![c] = "look"]
  /\ UNCHANGED <<live, stored, phase, missed, told, cut, unheard>>

ForMe(c) == {t \in Task : live[t].status = "open" /\ RoleOf[t] = RoleOf[c]}

Look(c) ==
  /\ at[c] = "look"
  /\ at' = [at EXCEPT ![c] = IF ForMe(c) # {} THEN "out" ELSE "signal"]
  /\ missed' = [missed EXCEPT ![c] = {}]
  /\ UNCHANGED <<live, stored, phase, told, cut, unheard>>

(* taskSignal, then select. *)
Block(c) ==
  /\ at[c] = "signal"
  /\ at' = [at EXCEPT ![c] = "blocked"]
  /\ UNCHANGED <<live, stored, phase, missed, told, cut, unheard>>

(* The deadline passes, or the client hangs up. *)
GiveUp(c) ==
  /\ at[c] = "blocked"
  /\ at' = [at EXCEPT ![c] = "out"]
  /\ missed' = [missed EXCEPT ![c] = {}]
  /\ UNCHANGED <<live, stored, phase, told, cut, unheard>>

(* A tick of the clock. *)
Elapsed(left) == IF left = 0 THEN 0 ELSE left - 1

Advance ==
  /\ phase' = (phase + 1) % Second
  /\ live' = [t \in Task |-> [live[t] EXCEPT !.left = Elapsed(@)]]
  /\ stored' = [t \in Task |-> [stored[t] EXCEPT !.left = Elapsed(@)]]
  /\ told' = [c \in Actor |-> [t \in Task |-> Elapsed(told[c][t])]]
  /\ UNCHANGED <<waiting, cut, unheard>>

(* The process dies with its connections, and a new one folds the journal. *)
Restart ==
  /\ live' = stored
  /\ at' = [c \in Waiter |-> "out"] /\ missed' = [c \in Waiter |-> {}]
  /\ cut' = cut \cup {x \in Actor \X Task :
                      stored[x[2]].status = "taken" /\ stored[x[2]].by = x[1]}
  /\ UNCHANGED <<stored, phase, told, unheard>>

Next ==
  \/ \E t \in Task : Create(t)
  \/ \E c \in Actor, t \in Task :
       Take(c, t) \/ \E status \in {"completed", "failed"} : Finish(c, t, status)
  \/ Sweep
  \/ \E c \in Waiter : Wait(c) \/ Look(c) \/ Block(c) \/ GiveUp(c)
  \/ Advance
  \/ Restart

(* Time passes, and the node ticks every minute (main.go). *)
Spec == Init /\ [][Next]_vars /\ WF_vars(Advance) /\ WF_vars(Sweep)

-----------------------------------------------------------------------------
Pool ==
  [Task -> [status: {"none", "open", "taken", "completed", "failed"},
            by: Actor \cup {Nobody}, left: 0..TTL]]

(* The variables range over pools and leases; only a taken task has a      *)
(* lease.                                                                  *)
TypeOK ==
  /\ live \in Pool /\ stored \in Pool
  /\ \A t \in Task : live[t].status \in {"none", "open"} => live[t].by = Nobody
  /\ \A t \in Task : live[t].status = "taken" => live[t].by \in Actor
  /\ \A t \in Task : live[t].left > 0 => live[t].status = "taken"
  /\ phase \in 0..(Second - 1)
  /\ at \in [Waiter -> {"out", "look", "signal", "blocked"}]
  /\ missed \in [Waiter -> SUBSET Task]
  /\ told \in [Actor -> [Task -> 0..TTL]]
  /\ cut \subseteq Actor \X Task /\ unheard \subseteq Task

(* "Take grants an exclusive TTL lease" (tasks.go): as long as its lease   *)
(* lasts a worker holds the task, and so nobody else does and its report   *)
(* is not refused, across restarts too.  A lease read back from the        *)
(* journal may end up to a second early.                                   *)
LeasesAreHonoured ==
  \A c \in Actor, t \in Task \ unheard :
    told[c][t] > (IF <<c, t>> \in cut THEN Second - 1 ELSE 0) =>
      live[t].status = "taken" /\ live[t].by = c

(* A task that was finished stays finished: no late worker, no sweep and   *)
(* no restart brings it back, unless its worker never heard it was done.   *)
FinishedForGood ==
  [][\A t \in Task \ unheard :
       stored[t].status \in {"completed", "failed"} =>
         stored'[t] = stored[t]]_vars

(* A restart gives the pool back: same tasks, same holders, leases shorter *)
(* by less than a second.  Where the event of an expiry was not stored,    *)
(* the lease that comes back is over.                                      *)
PoolIsRestored ==
  \A t \in Task \ unheard :
    \/ /\ stored[t].status = live[t].status /\ stored[t].by = live[t].by
       /\ live[t].left - stored[t].left \in 0..(Second - 1)
    \/ live[t] = Open /\ stored[t].status = "taken" /\ stored[t].left = 0

(* "A silently hung agent loses the task, it does not block the line"      *)
(* (tasks.go): a lease runs out, and one that ran out does not last.       *)
LeasesRunOut ==
  \A t \in Task :
    /\ live[t].status = "taken" ~> live[t].left = 0
    /\ Due(t) ~> ~Due(t)

(* A waiter that sleeps on sleeps through nothing but what it missed:      *)
(* tasks that opened between its look and its wait for the signal, and     *)
(* tasks returned to the pool by an expiry.                                *)
WakesReachAll ==
  \A c \in Waiter : at[c] = "blocked" => ForMe(c) \subseteq missed[c]

(* WaitForTask "blocks until an open task exists for the role" (tasks.go): *)
(* false, see the run tasks_wait.                                          *)
BlocksOnlyWithoutTask == \A c \in Waiter : at[c] = "blocked" => ForMe(c) = {}
=============================================================================
