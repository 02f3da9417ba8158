----------------------------- MODULE TasksProofs -----------------------------
(***************************************************************************)
(* The safety of the task pool: proved for any number of workers, waiters  *)
(* and tasks, any roles, any length of a lease and precision of the clock, *)
(* and any pattern of failures and restarts.                               *)
(***************************************************************************)
EXTENDS Tasks, TLAPS

(* A task of a pool: only a taken task has a holder to be and a lease left. *)
Entry ==
  {e \in [status: {"none", "open", "taken", "completed", "failed"},
          by: Actor \cup {Nobody}, left: 0..TTL] :
     /\ e.status \in {"none", "open"} => e.by = Nobody
     /\ e.status = "taken" => e.by \in Actor
     /\ e.left > 0 => e.status = "taken"}

Slack(c, t) == IF <<c, t>> \in cut THEN Second - 1 ELSE 0

(* What PoolIsRestored says of one task, in memory l and as stored s.      *)
Fits(l, s) ==
  \/ /\ s.status = l.status /\ s.by = l.by
     /\ l.left - s.left \in 0..(Second - 1)
  \/ l = Open /\ s.status = "taken" /\ s.left = 0

(* The lease an actor was told it has is the one in memory, but for what a *)
(* restart cut off, and a lease is cut once.                               *)
LeaseInv(c, t) ==
  /\ told[c][t] > Slack(c, t) =>
       /\ live[t].status = "taken" /\ live[t].by = c
       /\ live[t].left >= told[c][t] - Slack(c, t)
  /\ (live[t].status = "taken" /\ live[t].by = c /\ <<c, t>> \in cut) =>
       live[t].left = stored[t].left

PoolInv ==
  /\ live \in [Task -> Entry] /\ stored \in [Task -> Entry]
  /\ told \in [Actor -> [Task -> 0..TTL]]
  /\ cut \subseteq Actor \X Task /\ unheard \subseteq Task
  /\ phase \in 0..(Second - 1)
  /\ \A t \in Task \ unheard :
       Fits(live[t], stored[t]) /\ \A c \in Actor : LeaseInv(c, t)

(* Already between its look and its sleep a waiter misses nothing it does  *)
(* not know it missed.                                                     *)
WaitInv ==
  /\ at \in [Waiter -> {"out", "look", "signal", "blocked"}]
  /\ missed \in [Waiter -> SUBSET Task]
  /\ \A c \in Waiter :
       at[c] \in {"signal", "blocked"} => ForMe(c) \subseteq missed[c]

(* A step that touches task t alone keeps the rest of the pool.            *)
LEMMA OneTask ==
  ASSUME PoolInv, NEW t \in Task,
         live' \in [Task -> Entry], stored' \in [Task -> Entry],
         told' \in [Actor -> [Task -> 0..TTL]], cut' \subseteq Actor \X Task,
         unheard' \in {unheard, unheard \cup {t}}, UNCHANGED phase,
         \A u \in Task \ {t} :
           /\ live'[u] = live[u] /\ stored'[u] = stored[u]
           /\ \A c \in Actor : /\ told'[c][u] = told[c][u]
                               /\ <<c, u>> \in cut' <=> <<c, u>> \in cut,
         t \notin unheard' => /\ Fits(live'[t], stored'[t])
                              /\ \A c \in Actor : LeaseInv(c, t)'
  PROVE  PoolInv'
<1>1. ASSUME NEW u \in Task \ unheard', u # t
      PROVE  Fits(live'[u], stored'[u]) /\ \A c \in Actor : LeaseInv(c, u)'
  <2>1. Fits(live[u], stored[u]) /\ \A c \in Actor : LeaseInv(c, u)
    BY <1>1 DEF PoolInv
  <2>2. ASSUME NEW c \in Actor PROVE LeaseInv(c, u)'
    BY <1>1, <2>1, <2>2 DEF LeaseInv, Slack
  <2> QED
    BY <1>1, <2>1, <2>2
<1> QED
  BY <1>1 DEF PoolInv

LEMMA Entries ==
  /\ NoTask \in Entry /\ Open \in Entry
  /\ \A c \in Actor, left \in 0..TTL : Taken(c, left) \in Entry
  /\ \A e \in Entry, status \in {"completed", "failed"} :
       Finished(e, status) \in Entry
BY TasksAssumption DEF Entry, NoTask, Open, Taken, Finished

(* The seconds a journaled lease loses.                                    *)
LEMMA LeaseJournaled ==
  ASSUME phase \in 0..(Second - 1)
  PROVE  /\ Journaled(TTL) \in 0..TTL
         /\ TTL - Journaled(TTL) \in 0..(Second - 1)
<1>1. (phase + TTL) \in Nat /\ Second \in Nat \ {0} /\ TTL \in Nat /\ TTL >= Second
  BY TasksAssumption
<1>2. (phase + TTL) % Second \in 0..(Second - 1)
  BY <1>1
<1> QED
  BY <1>1, <1>2 DEF Journaled

(* An expiry takes nothing from anyone who holds a lease.                  *)
LEMMA ExpirePool ==
  ASSUME PoolInv, NEW D \in SUBSET Task, \A t \in D : Due(t), Expire(D)
  PROVE  PoolInv'
<1>1. PICK ok \in SUBSET D : stored' = Reopened(stored, ok)
  BY DEF Expire
<1>2. live' = Reopened(live, D) /\ UNCHANGED <<phase, told, cut, unheard>>
  BY DEF Expire
<1>3. live' \in [Task -> Entry] /\ stored' \in [Task -> Entry]
  BY <1>1, <1>2, Entries DEF PoolInv, Reopened
<1>4. ASSUME NEW t \in Task \ unheard
      PROVE  Fits(live'[t], stored'[t]) /\ \A c \in Actor : LeaseInv(c, t)'
  <2>1. Fits(live[t], stored[t]) /\ \A c \in Actor : LeaseInv(c, t)
    BY DEF PoolInv
  <2>2. CASE t \notin D
    <3>1. live'[t] = live[t] /\ stored'[t] = stored[t]
      BY <1>1, <1>2, <2>2 DEF Reopened
    <3> QED
      BY <1>2, <2>1, <3>1 DEF LeaseInv, Slack
  <2>3. CASE t \in D
    <3>1. /\ live[t].status = "taken" /\ live[t].left = 0
          /\ live[t] \in Entry /\ stored[t] \in Entry
      BY <2>3 DEF Due, PoolInv
    <3>2. live'[t] = Open /\ stored'[t] \in {Open, stored[t]}
      BY <1>1, <1>2, <2>3 DEF Reopened
    <3>3. stored[t].status = "taken" /\ stored[t].left = 0
      BY <2>1, <3>1, TasksAssumption DEF Fits, Open, Entry
    <3>4. Fits(live'[t], stored'[t])
      BY <3>2, <3>3, TasksAssumption DEF Fits, Open
    <3>5. ASSUME NEW c \in Actor PROVE LeaseInv(c, t)'
      <4>1. /\ told[c][t] \in 0..TTL /\ Slack(c, t) \in Nat
            /\ Slack(c, t)' = Slack(c, t)
        BY <1>2, TasksAssumption DEF Slack, PoolInv
      <4>2. LeaseInv(c, t)
        BY <2>1
      <4>3. ~(told[c][t] > Slack(c, t))
        BY <3>1, <4>1, <4>2 DEF LeaseInv
      <4>4. told'[c][t] = told[c][t] /\ live'[t].status = "open"
        BY <1>2, <3>2 DEF Open
      <4> QED
        BY <4>1, <4>3, <4>4 DEF LeaseInv
    <3> QED
      BY <3>4, <3>5
  <2> QED
    BY <2>2, <2>3
<1> QED
  BY <1>2, <1>3, <1>4 DEF PoolInv

LEMMA CreatePool ==
  ASSUME PoolInv, NEW t \in Task, Create(t)
  PROVE  PoolInv'
<1>1. /\ live[t] = NoTask /\ UNCHANGED <<phase, told, cut>>
      /\ live' \in {live, [live EXCEPT ![t] = Open]}
      /\ stored' \in {stored, [stored EXCEPT ![t] = Open]}
      /\ unheard' \in {unheard, unheard \cup {t}}
  BY DEF Create, Lose
<1>2. live' \in [Task -> Entry] /\ stored' \in [Task -> Entry]
  BY <1>1, Entries DEF PoolInv
<1>3. ASSUME t \notin unheard'
      PROVE  Fits(live'[t], stored'[t]) /\ \A c \in Actor : LeaseInv(c, t)'
  <2>1. t \notin unheard /\ live'[t] = Open
    BY <1>1, <1>3 DEF Create, Lose, PoolInv
  <2>2. Fits(NoTask, stored[t]) /\ \A c \in Actor : LeaseInv(c, t)
    BY <1>1, <2>1 DEF PoolInv
  <2>3. stored'[t] = Open
    <3>1. stored[t].status = "none" /\ stored[t] \in Entry
      BY <2>2 DEF Fits, NoTask, Open, PoolInv
    <3>2. stored[t] = NoTask
      BY <3>1, TasksAssumption DEF Entry, NoTask
    <3> QED
      BY <1>3, <3>2 DEF Create, Lose, PoolInv
  <2>4. Fits(live'[t], stored'[t])
    BY <2>1, <2>3, TasksAssumption DEF Fits, Open
  <2>5. ASSUME NEW c \in Actor PROVE LeaseInv(c, t)'
    <3>1. ~(told[c][t] > Slack(c, t))
      BY <1>1, <2>2 DEF LeaseInv, NoTask
    <3> QED
      BY <1>1, <2>1, <3>1 DEF LeaseInv, Slack, Open
  <2> QED
    BY <2>4, <2>5
<1>4. \A u \in Task \ {t} : live'[u] = live[u] /\ stored'[u] = stored[u]
  BY <1>1 DEF PoolInv
<1> QED
  BY <1>1, <1>2, <1>3, <1>4, OneTask DEF PoolInv

LEMMA TakePool ==
  ASSUME PoolInv, NEW c \in Actor, NEW t \in Task, Take(c, t)
  PROVE  PoolInv'
<1> DEFINE due == {t} \cap {u \in Task : Due(u)}
           pool == Reopened(live, due)
<1>1. CASE Expire(due)
  BY <1>1, ExpirePool
<1>2. CASE /\ pool[t].status = "open"
           /\ \E ok \in SUBSET due :
                stored' = [Reopened(stored, ok) EXCEPT
                             ![t] = Taken(c, Journaled(TTL))]
           /\ live' = [pool EXCEPT ![t] = Taken(c, TTL)]
           /\ told' = [told EXCEPT ![c][t] = TTL]
           /\ cut' = cut \ {<<c, t>>}
           /\ UNCHANGED <<phase, unheard>>
  <2>1. PICK ok \in SUBSET due :
          stored' = [Reopened(stored, ok) EXCEPT ![t] = Taken(c, Journaled(TTL))]
    BY <1>2
  <2>2. /\ live' \in [Task -> Entry] /\ stored' \in [Task -> Entry]
        /\ live'[t] = Taken(c, TTL) /\ stored'[t] = Taken(c, Journaled(TTL))
        /\ \A u \in Task \ {t} : live'[u] = live[u] /\ stored'[u] = stored[u]
    BY <1>2, <2>1, Entries, LeaseJournaled, TasksAssumption DEF PoolInv, Reopened
  <2>3. /\ told' \in [Actor -> [Task -> 0..TTL]] /\ cut' \subseteq Actor \X Task
        /\ told'[c][t] = TTL /\ <<c, t>> \notin cut'
        /\ \A u \in Task, d \in Actor : <<d, u>> # <<c, t>> =>
             told'[d][u] = told[d][u] /\ (<<d, u>> \in cut' <=> <<d, u>> \in cut)
    BY <1>2, TasksAssumption DEF PoolInv
  <2>4. ASSUME t \notin unheard'
        PROVE  Fits(live'[t], stored'[t]) /\ \A d \in Actor : LeaseInv(d, t)'
    <3>1. Fits(live'[t], stored'[t])
      BY <2>2, LeaseJournaled DEF Fits, Taken, PoolInv
    <3>2. LeaseInv(c, t)'
      BY <2>2, <2>3, TasksAssumption DEF LeaseInv, Slack, Taken
    <3>3. ASSUME NEW d \in Actor, d # c PROVE LeaseInv(d, t)'
      <4>1. /\ LeaseInv(d, t) /\ told[d][t] \in 0..TTL /\ Slack(d, t) \in Nat
        BY <1>2, <2>4, TasksAssumption DEF PoolInv, Slack
      <4>2. live[t].status # "taken" \/ live[t].left = 0
        BY <1>2 DEF Due, Reopened, PoolInv
      <4>3. ~(told[d][t] > Slack(d, t))
        BY <4>1, <4>2 DEF LeaseInv
      <4>4. told'[d][t] = told[d][t] /\ (<<d, t>> \in cut' <=> <<d, t>> \in cut)
        BY <2>3, <3>3
      <4>5. ~(told'[d][t] > Slack(d, t)')
        BY <4>3, <4>4 DEF Slack
      <4> QED
        BY <2>2, <3>3, <4>5 DEF LeaseInv, Taken
    <3> QED
      BY <3>1, <3>2, <3>3
  <2>5. \A u \in Task \ {t} :
          \A d \in Actor : told'[d][u] = told[d][u]
                           /\ (<<d, u>> \in cut' <=> <<d, u>> \in cut)
    BY <2>3
  <2> HIDE DEF due, pool
  <2> QED
    BY <1>2, <2>2, <2>3, <2>4, <2>5, OneTask
<1>3. CASE /\ \E ok \in SUBSET due :
                stored' = [Reopened(stored, ok) EXCEPT
                             ![t] = Taken(c, Journaled(TTL))]
           /\ live' = pool
           /\ unheard' = unheard \cup {t}
           /\ UNCHANGED <<phase, told, cut>>
  <2>1. PICK ok \in SUBSET due :
          stored' = [Reopened(stored, ok) EXCEPT ![t] = Taken(c, Journaled(TTL))]
    BY <1>3
  <2>2. /\ live' \in [Task -> Entry] /\ stored' \in [Task -> Entry]
        /\ \A u \in Task \ {t} : live'[u] = live[u] /\ stored'[u] = stored[u]
    BY <1>3, <2>1, Entries, LeaseJournaled, TasksAssumption DEF PoolInv, Reopened
  <2> HIDE DEF due, pool
  <2> QED
    BY <1>3, <2>2, OneTask DEF PoolInv
<1> QED
  BY <1>1, <1>2, <1>3 DEF Take, Lose

LEMMA FinishPool ==
  ASSUME PoolInv, NEW c \in Actor, NEW t \in Task,
         NEW status \in {"completed", "failed"}, Finish(c, t, status)
  PROVE  PoolInv'
<1>1. CASE Due(t) /\ Expire({t})
  BY <1>1, ExpirePool
<1>2. CASE /\ ~Due(t) /\ live[t].status = "taken" /\ live[t].by = c
           /\ stored' = [stored EXCEPT ![t] = Finished(@, status)]
           /\ \/ /\ live' = [live EXCEPT ![t] = Finished(@, status)]
                 /\ told' = [told EXCEPT ![c][t] = 0]
                 /\ UNCHANGED unheard
              \/ unheard' = unheard \cup {t} /\ UNCHANGED <<live, told>>
           /\ UNCHANGED <<phase, cut>>
  <2>1. Finished(live[t], status) \in Entry /\ Finished(stored[t], status) \in Entry
    BY Entries DEF PoolInv
  <2>2. /\ live' \in [Task -> Entry] /\ stored' \in [Task -> Entry]
        /\ \A u \in Task \ {t} : live'[u] = live[u] /\ stored'[u] = stored[u]
    BY <1>2, <2>1, Entries DEF PoolInv
  <2>3. /\ told' \in [Actor -> [Task -> 0..TTL]]
        /\ \A u \in Task, d \in Actor : <<d, u>> # <<c, t>> => told'[d][u] = told[d][u]
    <3>1. told' = told \/ told' = [told EXCEPT ![c][t] = 0]
      BY <1>2
    <3>2. told \in [Actor -> [Task -> 0..TTL]] /\ 0 \in 0..TTL
      BY TasksAssumption DEF PoolInv
    <3> QED
      BY ONLY c \in Actor, t \in Task, <3>1, <3>2
  <2>4. ASSUME t \notin unheard'
        PROVE  Fits(live'[t], stored'[t]) /\ \A d \in Actor : LeaseInv(d, t)'
    <3>1. /\ t \notin unheard /\ told'[c][t] = 0
          /\ live'[t] = Finished(live[t], status)
          /\ stored'[t] = Finished(stored[t], status)
      BY <1>2, <2>4 DEF PoolInv
    <3>2. Fits(live[t], stored[t]) /\ \A d \in Actor : LeaseInv(d, t)
      BY <3>1 DEF PoolInv
    <3>3. stored[t].by = live[t].by
      BY <1>2, <3>2 DEF Fits, Open
    <3>4. Fits(live'[t], stored'[t])
      BY <3>1, <3>3, TasksAssumption DEF Fits, Finished
    <3>5. ASSUME NEW d \in Actor PROVE LeaseInv(d, t)'
      <4>1. /\ LeaseInv(d, t) /\ told[d][t] \in 0..TTL
            /\ Slack(d, t) \in Nat /\ Slack(d, t)' = Slack(d, t)
        BY <1>2, <3>2, TasksAssumption DEF PoolInv, Slack
      <4>2. ~(told'[d][t] > Slack(d, t)')
        <5>1. CASE d = c
          BY <3>1, <4>1, <5>1
        <5>2. CASE d # c
          BY <1>2, <2>3, <4>1, <5>2 DEF LeaseInv
        <5> QED
          BY <5>1, <5>2
      <4>3. live'[t].status # "taken"
        BY <3>1 DEF Finished
      <4> QED
        BY <4>2, <4>3 DEF LeaseInv
    <3> QED
      BY <3>4, <3>5
  <2> QED
    BY <1>2, <2>2, <2>3, <2>4, OneTask DEF PoolInv
<1> QED
  BY <1>1, <1>2 DEF Finish, Lose

LEMMA AdvancePool ==
  ASSUME PoolInv, Advance
  PROVE  PoolInv'
<1>1. phase' \in 0..(Second - 1)
  BY TasksAssumption DEF Advance, PoolInv
<1>2. ASSUME NEW e \in Entry
      PROVE  /\ [e EXCEPT !.left = Elapsed(@)] \in Entry
             /\ [e EXCEPT !.left = Elapsed(@)].status = e.status
             /\ [e EXCEPT !.left = Elapsed(@)].by = e.by
             /\ [e EXCEPT !.left = Elapsed(@)].left = Elapsed(e.left)
  BY TasksAssumption DEF Entry, Elapsed
<1>3. /\ live' \in [Task -> Entry] /\ stored' \in [Task -> Entry]
      /\ \A t \in Task :
           /\ live'[t].status = live[t].status /\ live'[t].by = live[t].by
           /\ stored'[t].status = stored[t].status /\ stored'[t].by = stored[t].by
           /\ live'[t].left = Elapsed(live[t].left)
           /\ stored'[t].left = Elapsed(stored[t].left)
  BY <1>2 DEF Advance, PoolInv
<1>4. /\ told' \in [Actor -> [Task -> 0..TTL]]
      /\ \A c \in Actor, t \in Task : told'[c][t] = Elapsed(told[c][t])
  <2>1. ASSUME NEW c \in Actor, NEW t \in Task
        PROVE  Elapsed(told[c][t]) \in 0..TTL
    <3>1. told[c][t] \in 0..TTL
      BY DEF PoolInv
    <3> QED
      BY <3>1, TasksAssumption DEF Elapsed
  <2> QED
    BY <2>1 DEF Advance
<1>5. ASSUME NEW t \in Task \ unheard
      PROVE  Fits(live'[t], stored'[t]) /\ \A c \in Actor : LeaseInv(c, t)'
  <2>1. Fits(live[t], stored[t]) /\ \A c \in Actor : LeaseInv(c, t)
    BY DEF PoolInv
  <2>2. live[t].left \in Nat /\ stored[t].left \in Nat
    BY TasksAssumption DEF PoolInv, Entry
  <2>3. Fits(live'[t], stored'[t])
    <3>1. CASE live[t] = Open /\ stored[t].status = "taken" /\ stored[t].left = 0
      <4>1. live'[t] = Open
        <5>1. live'[t] = [Open EXCEPT !.left = Elapsed(@)] /\ Elapsed(0) = 0
          BY <3>1 DEF Advance, Elapsed
        <5> QED
          BY <5>1 DEF Open
      <4> QED
        BY <1>3, <3>1, <4>1 DEF Fits, Elapsed
    <3>2. CASE /\ stored[t].status = live[t].status /\ stored[t].by = live[t].by
               /\ live[t].left - stored[t].left \in 0..(Second - 1)
      BY <1>3, <2>2, <3>2, TasksAssumption DEF Fits, Elapsed
    <3> QED
      BY <2>1, <3>1, <3>2 DEF Fits
  <2>4. ASSUME NEW c \in Actor PROVE LeaseInv(c, t)'
    <3>1. /\ LeaseInv(c, t) /\ told[c][t] \in Nat /\ Slack(c, t) \in Nat
          /\ Slack(c, t)' = Slack(c, t) /\ cut' = cut
      BY <2>1, TasksAssumption DEF Slack, PoolInv, Advance
    <3> QED
      BY <1>3, <1>4, <2>2, <3>1 DEF LeaseInv, Elapsed
  <2> QED
    BY <2>3, <2>4
<1> QED
  BY <1>1, <1>3, <1>4, <1>5 DEF PoolInv, Advance

(* What a restart reads back fits what it was, and every lease it finds is *)
(* cut, if it was not already.                                             *)
LEMMA RestartPool ==
  ASSUME PoolInv, Restart
  PROVE  PoolInv'
<1>1. /\ live' = stored /\ stored' = stored /\ told' = told
      /\ phase' = phase /\ unheard' = unheard
      /\ cut' \subseteq Actor \X Task /\ cut \subseteq cut'
  BY DEF Restart, PoolInv
<1>2. ASSUME NEW c \in Actor, NEW t \in Task
      PROVE  <<c, t>> \in cut' <=>
               <<c, t>> \in cut \/ (stored[t].status = "taken" /\ stored[t].by = c)
  BY DEF Restart
<1>3. ASSUME NEW t \in Task \ unheard
      PROVE  Fits(live'[t], stored'[t]) /\ \A c \in Actor : LeaseInv(c, t)'
  <2>1. /\ Fits(live[t], stored[t]) /\ \A c \in Actor : LeaseInv(c, t)
        /\ live[t].left \in Nat /\ stored[t].left \in Nat
    BY TasksAssumption DEF PoolInv, Entry
  <2>2. Fits(live'[t], stored'[t])
    BY <1>1, <2>1, TasksAssumption DEF Fits
  <2>3. ASSUME NEW c \in Actor PROVE LeaseInv(c, t)'
    <3>1. /\ LeaseInv(c, t) /\ told[c][t] \in Nat
          /\ Slack(c, t) \in Nat /\ Slack(c, t)' \in Nat
          /\ Slack(c, t)' >= Slack(c, t)
      BY <1>1, <2>1, TasksAssumption DEF Slack, PoolInv
    <3>2. ASSUME told[c][t] > Slack(c, t)'
          PROVE  /\ stored[t].status = "taken" /\ stored[t].by = c
                 /\ stored[t].left >= told[c][t] - Slack(c, t)'
      <4>1. /\ live[t].status = "taken" /\ live[t].by = c
            /\ live[t].left >= told[c][t] - Slack(c, t)
        BY <3>1, <3>2 DEF LeaseInv
      <4>2. /\ stored[t].status = "taken" /\ stored[t].by = c
            /\ live[t].left - stored[t].left \in 0..(Second - 1)
        BY <2>1, <4>1 DEF Fits, Open
      <4>3. Slack(c, t)' = Second - 1
        BY <1>2, <4>2 DEF Slack
      <4>4. CASE <<c, t>> \in cut
        <5>1. live[t].left = stored[t].left
          BY <3>1, <4>1, <4>4 DEF LeaseInv
        <5>2. Slack(c, t) = Second - 1
          BY <4>4 DEF Slack
        <5> QED
          BY <4>1, <4>2, <4>3, <5>1, <5>2
      <4>5. CASE <<c, t>> \notin cut
        BY <2>1, <3>1, <4>1, <4>2, <4>3, <4>5, TasksAssumption DEF Slack
      <4> QED
        BY <4>2, <4>4, <4>5
    <3> QED
      BY <1>1, <3>2 DEF LeaseInv
  <2> QED
    BY <2>2, <2>3
<1> QED
  BY <1>1, <1>3 DEF PoolInv

(* The waits, and what does not concern the pool.                          *)
LEMMA WaitPool ==
  ASSUME PoolInv, UNCHANGED <<live, stored, phase, told, cut, unheard>>
  PROVE  PoolInv'
BY DEF PoolInv, LeaseInv, Slack, Fits, Open

LEMMA PoolInduction ==
  /\ Init => PoolInv
  /\ PoolInv /\ [Next]_vars => PoolInv'
<1>1. ASSUME Init PROVE PoolInv
  <2>1. \A t \in Task : Fits(live[t], stored[t])
    BY <1>1, TasksAssumption DEF Init, Fits, NoTask
  <2>2. \A c \in Actor, t \in Task : LeaseInv(c, t)
    BY <1>1, TasksAssumption DEF Init, LeaseInv, Slack, NoTask
  <2> QED
    BY <1>1, <2>1, <2>2, Entries, TasksAssumption DEF Init, PoolInv
<1>2. ASSUME PoolInv, [Next]_vars PROVE PoolInv'
  <2>1. ASSUME NEW t \in Task, Create(t) PROVE PoolInv'
    BY <1>2, <2>1, CreatePool
  <2>2. ASSUME NEW c \in Actor, NEW t \in Task, Take(c, t) PROVE PoolInv'
    BY <1>2, <2>2, TakePool
  <2>3. ASSUME NEW c \in Actor, NEW t \in Task,
               NEW status \in {"completed", "failed"}, Finish(c, t, status)
        PROVE  PoolInv'
    BY <1>2, <2>3, FinishPool
  <2>4. CASE Sweep
    BY <1>2, <2>4, ExpirePool DEF Sweep
  <2>5. ASSUME NEW c \in Waiter, Wait(c) \/ Look(c) \/ Block(c) \/ GiveUp(c)
        PROVE  PoolInv'
    BY <1>2, <2>5, WaitPool DEF Wait, Look, Block, GiveUp
  <2>6. CASE Advance
    BY <1>2, <2>6, AdvancePool
  <2>7. CASE Restart
    BY <1>2, <2>7, RestartPool
  <2>8. CASE UNCHANGED vars
    BY <1>2, <2>8, WaitPool DEF vars
  <2> QED
    BY <1>2, <2>1, <2>2, <2>3, <2>4, <2>5, <2>6, <2>7, <2>8 DEF Next
<1> QED
  BY <1>1, <1>2

-----------------------------------------------------------------------------
(* A step that opens no task but those of D keeps the promise of the waits *)
(* if who stays on its way to sleep counts D as missed.                    *)
LEMMA OpensOnly ==
  ASSUME WaitInv, NEW D \in SUBSET Task,
         \A t \in Task \ D : live'[t].status = "open" => live[t].status = "open",
         at' \in [Waiter -> {"out", "look", "signal", "blocked"}],
         missed' \in [Waiter -> SUBSET Task],
         \A c \in Waiter : at'[c] \in {"signal", "blocked"} =>
           /\ at[c] \in {"signal", "blocked"}
           /\ missed[c] \cup D \subseteq missed'[c]
  PROVE  WaitInv'
BY DEF WaitInv, ForMe

LEMMA OpensNone ==
  ASSUME WaitInv, UNCHANGED <<at, missed>>,
         \A t \in Task : live'[t].status = "open" => live[t].status = "open"
  PROVE  WaitInv'
BY DEF WaitInv, ForMe

LEMMA ExpireWait ==
  ASSUME PoolInv, WaitInv, NEW D \in SUBSET Task,
         live' = Reopened(live, D), NobodyWakes(D)
  PROVE  WaitInv'
<1>1. \A t \in Task \ D : live'[t] = live[t]
  BY DEF Reopened
<1>2. /\ at' = at /\ missed' \in [Waiter -> SUBSET Task]
      /\ \A c \in Waiter : at[c] \in {"signal", "blocked"} =>
           missed'[c] = missed[c] \cup D
  BY DEF NobodyWakes, WaitInv
<1> QED
  BY <1>1, <1>2, OpensOnly DEF WaitInv

LEMMA CreateWait ==
  ASSUME PoolInv, WaitInv, NEW t \in Task, Create(t)
  PROVE  WaitInv'
<1>1. CASE live' = [live EXCEPT ![t] = Open] /\ Wake(t)
  <2> DEFINE D == {t}
  <2>1. D \in SUBSET Task /\ \A u \in Task \ D : live'[u] = live[u]
    BY <1>1 DEF PoolInv
  <2>2. /\ at' \in [Waiter -> {"out", "look", "signal", "blocked"}]
        /\ missed' \in [Waiter -> SUBSET Task]
        /\ \A c \in Waiter : at'[c] \in {"signal", "blocked"} =>
             at[c] = "signal" /\ missed'[c] = missed[c] \cup D
    BY <1>1 DEF Wake, WaitInv
  <2> HIDE DEF D
  <2> QED
    BY <2>1, <2>2, OpensOnly
<1>2. CASE UNCHANGED <<live, at, missed>>
  BY <1>2 DEF WaitInv, ForMe
<1> QED
  BY <1>1, <1>2 DEF Create, waiting

LEMMA TakeWait ==
  ASSUME PoolInv, WaitInv, NEW c \in Actor, NEW t \in Task, Take(c, t)
  PROVE  WaitInv'
<1> DEFINE due == {t} \cap {u \in Task : Due(u)}
           pool == Reopened(live, due)
<1>1. CASE live' = pool /\ NobodyWakes(due)
  BY <1>1, ExpireWait
<1>2. CASE live' = [pool EXCEPT ![t] = Taken(c, TTL)] /\ UNCHANGED <<at, missed>>
  <2>1. \A u \in Task : live'[u].status = "open" => live[u].status = "open"
    <3>1. ASSUME NEW u \in Task, u # t PROVE live'[u] = live[u]
      BY <1>2, <3>1 DEF Reopened
    <3>2. live'[t].status = "taken"
      BY <1>2 DEF Reopened, Taken
    <3> QED
      BY <3>1, <3>2
  <2> QED
    BY <1>2, <2>1, OpensNone
<1> QED
  BY <1>1, <1>2 DEF Take, Expire, waiting

LEMMA FinishWait ==
  ASSUME PoolInv, WaitInv, NEW c \in Actor, NEW t \in Task,
         NEW status \in {"completed", "failed"}, Finish(c, t, status)
  PROVE  WaitInv'
<1>1. CASE Expire({t})
  BY <1>1, ExpireWait DEF Expire
<1>2. CASE /\ live' \in {live, [live EXCEPT ![t] = Finished(@, status)]}
           /\ UNCHANGED <<at, missed>>
  <2>1. \A u \in Task : live'[u].status = "open" => live[u].status = "open"
    BY <1>2 DEF Finished, PoolInv
  <2> QED
    BY <1>2, <2>1, OpensNone
<1> QED
  BY <1>1, <1>2 DEF Finish, waiting

LEMMA WaitInduction ==
  /\ Init => WaitInv
  /\ PoolInv /\ WaitInv /\ [Next]_vars => WaitInv'
<1>1. Init => WaitInv
  BY DEF Init, WaitInv
<1>2. ASSUME PoolInv, WaitInv, [Next]_vars PROVE WaitInv'
  <2>1. ASSUME NEW t \in Task, Create(t) PROVE WaitInv'
    BY <1>2, <2>1, CreateWait
  <2>2. ASSUME NEW c \in Actor, NEW t \in Task, Take(c, t) PROVE WaitInv'
    BY <1>2, <2>2, TakeWait
  <2>3. ASSUME NEW c \in Actor, NEW t \in Task,
               NEW status \in {"completed", "failed"}, Finish(c, t, status)
        PROVE  WaitInv'
    BY <1>2, <2>3, FinishWait
  <2>4. CASE Sweep
    BY <1>2, <2>4, ExpireWait DEF Sweep, Expire
  <2>5. ASSUME NEW c \in Waiter, Wait(c) \/ Look(c) \/ Block(c) \/ GiveUp(c)
        PROVE  WaitInv'
    BY <1>2, <2>5 DEF Wait, Look, Block, GiveUp, WaitInv, ForMe
  <2>6. CASE Advance
    <3>1. \A t \in Task : live'[t].status = live[t].status
      BY <1>2, <2>6 DEF Advance, PoolInv, Entry
    <3>2. at' = at /\ missed' = missed
      BY <2>6 DEF Advance, waiting
    <3> QED
      BY <1>2, <3>1, <3>2, OpensNone
  <2>7. CASE Restart
    BY <2>7 DEF Restart, WaitInv
  <2>8. CASE UNCHANGED vars
    BY <1>2, <2>8 DEF vars, WaitInv, ForMe
  <2> QED
    BY <1>2, <2>1, <2>2, <2>3, <2>4, <2>5, <2>6, <2>7, <2>8 DEF Next
<1> QED
  BY <1>1, <1>2

-----------------------------------------------------------------------------
LEMMA Inductive == Spec => [](PoolInv /\ WaitInv)
<1>1. Init => PoolInv /\ WaitInv
  BY PoolInduction, WaitInduction
<1>2. PoolInv /\ WaitInv /\ [Next]_vars => (PoolInv /\ WaitInv)'
  BY PoolInduction, WaitInduction
<1> QED
  BY <1>1, <1>2, PTL DEF Spec

(* The pool, the leases and the waits of tasks.go have the shape the code  *)
(* expects of them.                                                        *)
THEOREM TypesHold == Spec => []TypeOK
<1>1. PoolInv /\ WaitInv => TypeOK
  <2>1. ASSUME PoolInv, NEW t \in Task PROVE live[t] \in Entry
    BY <2>1 DEF PoolInv
  <2>2. ASSUME PoolInv PROVE live \in Pool /\ stored \in Pool
    BY <2>2 DEF PoolInv, Pool, Entry
  <2> QED
    BY <2>1, <2>2 DEF TypeOK, PoolInv, WaitInv, Entry
<1> QED
  BY <1>1, Inductive, PTL

(* No worker loses a task before its lease is over, whoever else takes,    *)
(* reports or sweeps and however often the process restarts: but for the   *)
(* part of a second a restart rounds away, and for a task with an append   *)
(* that was stored and answered with an error.                             *)
THEOREM LeasesHold == Spec => []LeasesAreHonoured
<1>1. PoolInv => LeasesAreHonoured
  BY DEF PoolInv, LeaseInv, Slack, LeasesAreHonoured
<1> QED
  BY <1>1, Inductive, PTL

(* What a restart folds from the journal is the pool that was in memory.   *)
THEOREM RestartRestoresPool == Spec => []PoolIsRestored
<1>1. PoolInv => PoolIsRestored
  BY DEF PoolInv, Fits, PoolIsRestored
<1> QED
  BY <1>1, Inductive, PTL

(* createTask wakes every sleeper: a waiter sleeps through no task but     *)
(* those that opened before it slept, or by an expiry.                     *)
THEOREM WakesHold == Spec => []WakesReachAll
<1>1. WaitInv => WakesReachAll
  BY DEF WaitInv, WakesReachAll
<1> QED
  BY <1>1, Inductive, PTL

(* No step touches a task whose end is stored and was answered.            *)
THEOREM FinishedStays == Spec => FinishedForGood
<1> DEFINE Stays == \A t \in Task \ unheard :
                      stored[t].status \in {"completed", "failed"} =>
                        stored'[t] = stored[t]
<1>1. ASSUME PoolInv, [Next]_vars, NEW t \in Task \ unheard,
             stored[t].status \in {"completed", "failed"}
      PROVE  stored'[t] = stored[t]
  <2>1. /\ live[t].status = stored[t].status /\ stored[t] \in Entry
        /\ live[t] # NoTask /\ ~Due(t)
    BY <1>1 DEF PoolInv, Fits, Open, NoTask, Due
  <2>2. ASSUME NEW D \in SUBSET Task, \A u \in D : Due(u), Expire(D)
        PROVE  stored'[t] = stored[t]
    BY <2>1, <2>2 DEF Expire, Reopened
  <2>3. ASSUME NEW u \in Task, Create(u) PROVE stored'[t] = stored[t]
    BY <1>1, <2>1, <2>3 DEF Create, PoolInv
  <2>4. ASSUME NEW c \in Actor, NEW u \in Task, Take(c, u)
        PROVE  stored'[t] = stored[t]
    <3> DEFINE due == {u} \cap {v \in Task : Due(v)}
    <3>1. CASE Expire(due)
      BY <2>2, <3>1
    <3>2. CASE /\ Reopened(live, due)[u].status = "open"
               /\ \E ok \in SUBSET due :
                    stored' = [Reopened(stored, ok) EXCEPT
                                 ![u] = Taken(c, Journaled(TTL))]
      <4>1. t # u /\ t \notin due
        BY <1>1, <2>1, <3>2 DEF Reopened
      <4> QED
        BY <3>2, <4>1 DEF Reopened
    <3> QED
      BY <2>4, <3>1, <3>2 DEF Take
  <2>5. ASSUME NEW c \in Actor, NEW u \in Task,
               NEW status \in {"completed", "failed"}, Finish(c, u, status)
        PROVE  stored'[t] = stored[t]
    <3>1. CASE Due(u) /\ Expire({u})
      BY <2>2, <3>1
    <3>2. CASE /\ live[u].status = "taken"
               /\ stored' = [stored EXCEPT ![u] = Finished(@, status)]
      BY <1>1, <2>1, <3>2 DEF PoolInv
    <3> QED
      BY <2>5, <3>1, <3>2 DEF Finish
  <2>6. CASE Sweep
    BY <2>2, <2>6 DEF Sweep
  <2>7. CASE Advance
    <3>1. stored[t].left = 0 /\ stored'[t] = [stored[t] EXCEPT !.left = Elapsed(@)]
      BY <1>1, <2>1, <2>7, TasksAssumption DEF Advance, Entry
    <3> QED
      BY <2>1, <3>1 DEF Elapsed, Entry
  <2>8. CASE UNCHANGED stored
    BY <2>8
  <2> QED
    BY <1>1, <2>3, <2>4, <2>5, <2>6, <2>7, <2>8
    DEF Next, Wait, Look, Block, GiveUp, Restart, vars
<1>2. PoolInv /\ [Next]_vars => Stays
  BY <1>1
<1>3. PoolInv /\ [Next]_vars => [Stays]_vars
  BY <1>2
<1> QED
  BY <1>3, Inductive, PTL DEF Spec, FinishedForGood
=============================================================================
