------------------------------ MODULE Workflow ------------------------------
(***************************************************************************)
(* The engine's records, workflow, approvals and the tasks a workflow      *)
(* queues (internal/engine).  The engine keeps a projection in memory and  *)
(* appends every change to the journal first; a restart folds the journal  *)
(* into a new projection.  One call at a time holds the engine's mutex,    *)
(* from its checks through all its appends, so what interleaves with the   *)
(* steps of a call is failure: an append refused, an append stored whose   *)
(* answer was lost, a retry under an idempotency key, a crash.             *)
(*                                                                         *)
(* One entity with a workflow.  A refused call (permission, validation, no *)
(* basis) changes nothing and is left out; guards read the record's data.  *)
(***************************************************************************)
EXTENDS Integers, Sequences, FiniteSets

CONSTANTS
  Rec,           \* record ids
  ApprovalId,    \* ids of approval requests
  Data,          \* values of the fields the workflow does not govern
  State,         \* values of the workflow field
  InitialState,  \* its default
  Any,           \* the from-state "any"
  Transitions,   \* the workflow block, in its order
  Triggers,      \* the create / update automation rules, in their order
  None,          \* no record, no data, no state, no approval
  Keyed,         \* the calls clients make under an idempotency key
  HopLimit,      \* bound of the auto-transition loop (10 in the code)
  MaxLost,       \* bound: how many stored appends are answered with an error
  MaxChanges     \* bound: no call begins after this many events but tasks

Action == {Transitions[i].action : i \in DOMAIN Transitions}

Task == {Triggers[i].task : i \in DOMAIN Triggers}

Call ==
  {<<"create", d>> : d \in Data} \cup {<<"update", r, d>> : r \in Rec, d \in Data}
    \cup {<<"act", r, action>> : r \in Rec, action \in Action}

Trigger == {"create", "update", "act"}

Transition ==
  [action: Action, from: State \cup {Any}, to: State, when: SUBSET Data,
   auto: BOOLEAN, approval: BOOLEAN, assigned: BOOLEAN]

Rule == [on: {"create", "update"}, when: SUBSET Data, task: Task]

ASSUME WorkflowAssumption ==
  /\ InitialState \in State /\ Any \notin State
  /\ None \notin State /\ None \notin Rec /\ None \notin ApprovalId
  /\ Transitions \in Seq(Transition) /\ Triggers \in Seq(Rule)
  /\ Keyed \subseteq Call
  /\ HopLimit \in Nat

(* The parser names every auto transition "auto", and only those.          *)
ASSUME AutoAssumption ==
  \A i, j \in DOMAIN Transitions :
    Transitions[i].action = Transitions[j].action =>
      Transitions[i].auto = Transitions[j].auto

VARIABLES
  journal,   \* the events
  live,      \* the projection in memory
  replay,    \* the projection New would fold from the journal
  op,        \* what the call that holds the mutex does next
  skew,      \* the projection was changed by more or less than was stored
  unheard,   \* events whose append was answered with an error
  rough      \* records whose last change was not seen through

vars == <<journal, live, replay, op, skew, unheard, rough>>
aux == <<skew, unheard, rough>>

Idle == [at |-> "idle"]
Signed(a) == [at |-> "signed", appr |-> a]
Settle(r, hops, on) == [at |-> "settle", rec |-> r, hops |-> hops, on |-> on]
Queue(r, on, next, clean) ==
  [at |-> "queue", rec |-> r, on |-> on, next |-> next, clean |-> clean]

-----------------------------------------------------------------------------
(* Events.  A client that repeats a call repeats its key, and uses a key   *)
(* for one call only: a key is the call it stands for.                     *)
NoKey == <<>>

KeyOf(call) == IF call \in Keyed THEN call ELSE NoKey

Event(kind, r, data, action, from, to, a, key) ==
  [kind |-> kind, rec |-> r, data |-> data, action |-> action,
   from |-> from, to |-> to, appr |-> a, key |-> key]

Created(r, d, s, key) == Event("created", r, d, None, None, s, None, key)
Imported(r, d, s) == Event("created", r, d, "import", None, s, None, NoKey)
Updated(r, d, key) == Event("updated", r, d, None, None, None, None, key)
Moved(r, action, from, to, a, key) ==
  Event("action", r, None, action, from, to, a, key)
Requested(r, action, from, to, a, key) ==
  Event("requested", r, None, action, from, to, a, key)
Decided(kind, a) == Event(kind, None, None, None, None, None, a, NoKey)
TaskCreated(r, action, key) ==
  Event("task", r, None, action, None, None, None, key)

ByIdemKey(key) == {n \in DOMAIN journal : key # NoKey /\ journal[n].key = key}

Approval(r, action, from, to, status) ==
  [rec |-> r, action |-> action, from |-> from, to |-> to, status |-> status]

NoApproval == Approval(None, None, None, None, "none")

NoProjection ==
  [state |-> [r \in Rec |-> None], data |-> [r \in Rec |-> None],
   since |-> [r \in Rec |-> 0], appr |-> [a \in ApprovalId |-> NoApproval],
   tasks |-> {}]

(* applyEvent: one event, stored under number n, folded into a projection. *)
(* The moment a record entered its state is the number of the event that   *)
(* put it there, and a task is named by the event that created it.         *)
ApplyEvent(p, n, e) ==
  CASE e.kind = "created" ->
         [p EXCEPT !.state[e.rec] = e.to, !.data[e.rec] = e.data,
                   !.since[e.rec] = n]
    [] e.kind = "updated" /\ p.state[e.rec] # None ->
         [p EXCEPT !.data[e.rec] = e.data]
    [] e.kind = "action" ->
         [p EXCEPT !.state[e.rec] = IF @ = None THEN None ELSE e.to,
                   !.since[e.rec] = n]
    [] e.kind = "requested" ->
         [p EXCEPT !.appr[e.appr] =
                     Approval(e.rec, e.action, e.from, e.to, "pending")]
    [] e.kind \in {"granted", "rejected"} /\ p.appr[e.appr] # NoApproval ->
         [p EXCEPT !.appr[e.appr].status = e.kind]
    [] e.kind = "task" -> [p EXCEPT !.tasks = @ \cup {n}]
    [] OTHER -> p

-----------------------------------------------------------------------------
(* The workflow block. *)
Leaves(t, s) == t.from \in {s, Any}

(* findTransition: the first transition of that name that leaves s. *)
FindTransition(action, s) ==
  {Transitions[i] : i \in {i \in DOMAIN Transitions :
     /\ Transitions[i].action = action /\ ~Transitions[i].auto
     /\ Leaves(Transitions[i], s)
     /\ \A j \in 1..(i - 1) :
          ~(/\ Transitions[j].action = action /\ ~Transitions[j].auto
            /\ Leaves(Transitions[j], s))}}

Fires(t, r) ==
  /\ t.auto /\ Leaves(t, live.state[r]) /\ t.to # live.state[r]
  /\ live.data[r] \in t.when

(* The auto transition the loop takes next: the first that fires. *)
NextAuto(r) ==
  {Transitions[i] : i \in {i \in DOMAIN Transitions :
     /\ Fires(Transitions[i], r)
     /\ \A j \in 1..(i - 1) : ~Fires(Transitions[j], r)}}

(* Some auto transition is this move. *)
IsAuto(action, from, to) ==
  \E i \in DOMAIN Transitions :
    /\ Transitions[i].auto /\ Transitions[i].action = action
    /\ Leaves(Transitions[i], from) /\ Transitions[i].to = to

(* Mutant: the key of a workflow task leaves out the stay in the state. *)
StaylessTaskKey(r, action, since) == <<"task", r, action>>

TaskKey(r, action, since) == <<"task", r, action, since>>

(* ensureWorkflowTasks goes through the transitions, then runEventTriggers *)
(* through the rules: what is due, and the task it creates.                *)
Due(r, on, j) ==
  \/ /\ j \in DOMAIN Transitions
     /\ Transitions[j].assigned /\ ~Transitions[j].auto
     /\ Leaves(Transitions[j], live.state[r])
  \/ /\ j - Len(Transitions) \in DOMAIN Triggers
     /\ Triggers[j - Len(Transitions)].on = on
     /\ live.data[r] \in Triggers[j - Len(Transitions)].when

DueAt(r, on, next) ==
  {j \in next..(Len(Transitions) + Len(Triggers)) :
     Due(r, on, j) /\ \A k \in next..(j - 1) : ~Due(r, on, k)}

DueTask(r, j) ==
  IF j \in DOMAIN Transitions
  THEN TaskCreated(r, Transitions[j].action,
                   TaskKey(r, Transitions[j].action, live.since[r]))
  ELSE TaskCreated(r, Triggers[j - Len(Transitions)].task, NoKey)

-----------------------------------------------------------------------------
(* What an append does and what its caller learns. *)
NextSeq == Len(journal) + 1

Stored(e) ==
  /\ ByIdemKey(e.key) = {}
  /\ journal' = Append(journal, e)
  /\ replay' = ApplyEvent(replay, NextSeq, e)

(* Answered with the event stored earlier under the key. *)
Prior(e, n) == n \in ByIdemKey(e.key) /\ UNCHANGED <<journal, replay>>

(* An error: nothing is stored, or the answer was lost. *)
Errs(e) ==
  \/ UNCHANGED <<journal, replay, skew, unheard, rough>>
  \/ /\ Cardinality(unheard) < MaxLost
     /\ Stored(e)
     /\ skew' = TRUE
     /\ unheard' = unheard \cup {NextSeq}
     /\ rough' = rough \cup ({e.rec} \cap Rec)

Changes(r) == rough' = rough \cup {r}

Begins ==
  /\ op = Idle
  /\ Cardinality({n \in DOMAIN journal : journal[n].kind # "task"}) < MaxChanges
Exists(r) == live.state[r] # None
Fresh(r) == \A n \in DOMAIN journal : journal[n].rec # r
Unused ==
  {a \in ApprovalId : /\ live.appr[a] = NoApproval
                      /\ \A n \in DOMAIN journal : journal[n].appr # a}

-----------------------------------------------------------------------------
Init ==
  /\ journal = <<>>
  /\ live = NoProjection /\ replay = NoProjection
  /\ op = Idle
  /\ skew = FALSE /\ unheard = {} /\ rough = {}

(* Record r enters the projection, set there by event n. *)
Enter(r, d, s, n) ==
  live' = [live EXCEPT !.state[r] = s, !.data[r] = d, !.since[r] = n]

(* Create.  A retry whose record is there returns it; one whose record is  *)
(* not there (the first answer was lost) projects it now.                  *)
Create(r, d, key) ==
  /\ Begins
  /\ ~Exists(r)
  /\ LET e == Created(r, d, InitialState, key) IN
     \/ /\ \/ Stored(e) /\ Fresh(r) /\ Enter(r, d, InitialState, NextSeq)
           \/ \E n \in ByIdemKey(key) :
                /\ journal[n].rec = r
                /\ Prior(e, n)
                /\ Enter(r, d, InitialState, n)
        /\ op' = Settle(r, 0, "create")
        /\ Changes(r) /\ UNCHANGED <<skew, unheard>>
     \/ Errs(e) /\ Fresh(r) /\ UNCHANGED <<live, op>>

(* ImportRecord, for each record of an export: state and data as they      *)
(* were, and nothing else runs.  It only enters an empty journal.          *)
ImportRecord(r, d, s) ==
  /\ Begins
  /\ Fresh(r) /\ \A n \in DOMAIN journal : journal[n].action = "import"
  /\ LET e == Imported(r, d, s) IN
     \/ /\ Stored(e)
        /\ Enter(r, d, s, NextSeq)
        /\ Changes(r) /\ UNCHANGED <<op, skew, unheard>>
     \/ Errs(e) /\ UNCHANGED <<live, op>>

(* Mutant: the record is changed before the append and stays changed. *)
UpdateFirst(r, d, key) ==
  /\ Begins /\ Exists(r) /\ live.data[r] # d
  /\ live' = [live EXCEPT !.data[r] = d]
  /\ LET e == Updated(r, d, key) IN
     \/ /\ Stored(e)
        /\ op' = Settle(r, 0, "update")
        /\ Changes(r) /\ UNCHANGED <<skew, unheard>>
     \/ Errs(e) /\ UNCHANGED op

(* Mutant: the auto transitions are not run. *)
UpdateUnsettled(r, d, key) ==
  /\ Begins /\ Exists(r) /\ live.data[r] # d
  /\ LET e == Updated(r, d, key) IN
     \/ /\ \/ Stored(e) /\ UNCHANGED skew
           \/ (\E n \in ByIdemKey(key) : Prior(e, n)) /\ skew' = TRUE
        /\ live' = [live EXCEPT !.data[r] = d]
        /\ op' = Queue(r, "update", 1, TRUE)
        /\ Changes(r) /\ UNCHANGED unheard
     \/ Errs(e) /\ UNCHANGED <<live, op>>

(* Update.  It does not look at which event the store answered with. *)
Update(r, d, key) ==
  /\ Begins /\ Exists(r) /\ live.data[r] # d
  /\ LET e == Updated(r, d, key) IN
     \/ /\ \/ Stored(e) /\ UNCHANGED skew
           \/ (\E n \in ByIdemKey(key) : Prior(e, n)) /\ skew' = TRUE
        /\ live' = [live EXCEPT !.data[r] = d]
        /\ op' = Settle(r, 0, "update")
        /\ Changes(r) /\ UNCHANGED unheard
     \/ Errs(e) /\ UNCHANGED <<live, op>>

(* applyTransition, answered: the projection moves, whichever event the    *)
(* store answered with.                                                    *)
Move(e) ==
  /\ \/ /\ Stored(e)
        /\ live' = [live EXCEPT !.state[e.rec] = e.to, !.since[e.rec] = NextSeq]
        /\ UNCHANGED skew
     \/ \E n \in ByIdemKey(e.key) :
          /\ Prior(e, n)
          /\ live' = [live EXCEPT !.state[e.rec] = e.to, !.since[e.rec] = n]
          /\ skew' = TRUE
  /\ Changes(e.rec) /\ UNCHANGED unheard

(* Mutant: every transition is applied at once. *)
ActUnsigned(r, action, key) ==
  /\ Begins /\ Exists(r)
  /\ \E t \in FindTransition(action, live.state[r]) :
       /\ live.data[r] \in t.when
       /\ LET e == Moved(r, action, live.state[r], t.to, None, key) IN
          \/ Move(e) /\ op' = Settle(r, 0, "act")
          \/ Errs(e) /\ UNCHANGED <<live, op>>

(* Act: apply the transition, or park it for a signature. *)
Act(r, action, key) ==
  /\ Begins /\ Exists(r)
  /\ \E t \in FindTransition(action, live.state[r]) :
       /\ live.data[r] \in t.when
       /\ \/ /\ ~t.approval
             /\ LET e == Moved(r, action, live.state[r], t.to, None, key) IN
                \/ Move(e) /\ op' = Settle(r, 0, "act")
                \/ Errs(e) /\ UNCHANGED <<live, op>>
          \/ /\ t.approval
             /\ Unused # {}
             /\ LET a == CHOOSE a \in Unused : TRUE
                    e == Requested(r, action, live.state[r], t.to, a, key)
                IN \/ /\ \/ Stored(e) /\ UNCHANGED skew
                         \/ /\ \E n \in ByIdemKey(key) : Prior(e, n)
                            /\ skew' = TRUE
                      /\ live' = [live EXCEPT !.appr[a] =
                           Approval(r, action, live.state[r], t.to, "pending")]
                      /\ UNCHANGED <<unheard, rough>>
                   \/ Errs(e) /\ UNCHANGED live
             /\ UNCHANGED op

(* Mutant: only a rejection is final. *)
DecideAgain(a, kind) ==
  /\ Begins
  /\ live.appr[a].status \in {"pending", "granted"}
  /\ LET e == Decided(kind, a) IN
     \/ /\ Stored(e)
        /\ live' = [live EXCEPT !.appr[a].status = kind]
        /\ op' = IF kind = "granted" THEN Signed(a) ELSE Idle
        /\ UNCHANGED aux
     \/ Errs(e) /\ UNCHANGED <<live, op>>

(* Decide, first append: the decision. *)
Decide(a, kind) ==
  /\ Begins
  /\ live.appr[a].status = "pending"
  /\ LET e == Decided(kind, a) IN
     \/ /\ Stored(e)
        /\ live' = [live EXCEPT !.appr[a].status = kind]
        /\ op' = IF kind = "granted" THEN Signed(a) ELSE Idle
        /\ UNCHANGED aux
     \/ Errs(e) /\ UNCHANGED <<live, op>>

(* Mutant: nobody looks where the record is by now. *)
MoveSignedBlindly ==
  /\ op.at = "signed"
  /\ LET p == live.appr[op.appr]
         e == Moved(p.rec, p.action, live.state[p.rec], p.to, op.appr, NoKey)
     IN \/ Move(e) /\ op' = Settle(p.rec, 0, "act")
        \/ Errs(e) /\ op' = Idle /\ UNCHANGED live

(* Decide, second append: the transition that was signed, if the record is *)
(* still where it was asked for.                                           *)
MoveSigned ==
  /\ op.at = "signed"
  /\ LET p == live.appr[op.appr]
         e == Moved(p.rec, p.action, p.from, p.to, op.appr, NoKey)
     IN \/ /\ live.state[p.rec] # p.from
           /\ op' = Idle
           /\ UNCHANGED <<journal, live, replay, aux>>
        \/ /\ live.state[p.rec] = p.from
           /\ \/ Move(e) /\ op' = Settle(p.rec, 0, "act")
              \/ Errs(e) /\ op' = Idle /\ UNCHANGED live

(* runAutoTransitions, one turn of the loop.  The error of an append is    *)
(* dropped and the turn counts.                                            *)
Hop ==
  /\ op.at = "settle" /\ op.hops < HopLimit
  /\ \E t \in NextAuto(op.rec) :
       LET e == Moved(op.rec, t.action, live.state[op.rec], t.to, None, NoKey)
       IN \/ Move(e)
          \/ Errs(e) /\ UNCHANGED live
  /\ op' = [op EXCEPT !.hops = @ + 1]

(* Mutant: the loop has no bound. *)
HopsUntilSettled ==
  /\ op.at = "settle" /\ NextAuto(op.rec) = {}
  /\ op' = Queue(op.rec, op.on, 1, TRUE)
  /\ UNCHANGED <<journal, live, replay, aux>>

(* The loop ends, settled or at its bound. *)
HopsDone ==
  /\ op.at = "settle"
  /\ NextAuto(op.rec) = {} \/ op.hops = HopLimit
  /\ op' = Queue(op.rec, op.on, 1, op.hops < HopLimit)
  /\ UNCHANGED <<journal, live, replay, aux>>

(* Mutant: an idempotent hit projects a task under the id just minted. *)
CreateTaskMinted ==
  /\ op.at = "queue"
  /\ \E j \in DueAt(op.rec, op.on, op.next) :
       LET e == DueTask(op.rec, j) IN
       \/ /\ \/ Stored(e)
             \/ \E n \in ByIdemKey(e.key) : Prior(e, n)
          /\ live' = [live EXCEPT !.tasks = @ \cup {NextSeq}]
          /\ op' = [op EXCEPT !.next = j + 1]
          /\ UNCHANGED aux
       \/ /\ Errs(e)
          /\ op' = [op EXCEPT !.next = j + 1, !.clean = @ /\ e.key = NoKey]
          /\ UNCHANGED live

(* createTask, for the next task due.  Its errors are dropped too. *)
CreateTask ==
  /\ op.at = "queue"
  /\ \E j \in DueAt(op.rec, op.on, op.next) :
       LET e == DueTask(op.rec, j) IN
       \/ /\ \/ Stored(e) /\ live' = [live EXCEPT !.tasks = @ \cup {NextSeq}]
             \/ \E n \in ByIdemKey(e.key) :
                  Prior(e, n) /\ live' = [live EXCEPT !.tasks = @ \cup {n}]
          /\ op' = [op EXCEPT !.next = j + 1]
          /\ UNCHANGED aux
       \/ /\ Errs(e)
          /\ op' = [op EXCEPT !.next = j + 1, !.clean = @ /\ e.key = NoKey]
          /\ UNCHANGED live

(* The call returns and the mutex is free. *)
Return ==
  /\ op.at = "queue" /\ DueAt(op.rec, op.on, op.next) = {}
  /\ op' = Idle
  /\ rough' = IF op.clean /\ ~skew THEN rough \ {op.rec} ELSE rough
  /\ UNCHANGED <<journal, live, replay, skew, unheard>>

(* The process dies, at any point of a call, and a new one folds the       *)
(* journal (New).                                                          *)
Restart ==
  /\ live' = replay
  /\ op' = Idle
  /\ skew' = FALSE
  /\ UNCHANGED <<journal, replay, unheard, rough>>

Step == MoveSigned \/ Hop \/ HopsDone \/ CreateTask \/ Return

Next ==
  \/ \E r \in Rec, d \in Data :
       \/ Create(r, d, KeyOf(<<"create", d>>))
       \/ Update(r, d, KeyOf(<<"update", r, d>>))
       \/ \E s \in State : ImportRecord(r, d, s)
  \/ \E r \in Rec, action \in Action :
       Act(r, action, KeyOf(<<"act", r, action>>))
  \/ \E a \in ApprovalId, kind \in {"granted", "rejected"} : Decide(a, kind)
  \/ Step
  \/ Restart

(* A call that holds the mutex is straight-line code: it goes on. *)
Spec == Init /\ [][Next]_vars /\ WF_vars(Step)

-----------------------------------------------------------------------------
Projection ==
  [state: [Rec -> State \cup {None}], data: [Rec -> Data \cup {None}],
   since: [Rec -> Nat],
   appr: [ApprovalId ->
            {NoApproval} \cup
            [rec: Rec, action: Action, from: State, to: State,
             status: {"pending", "granted", "rejected"}]],
   tasks: SUBSET Nat]

Continuation ==
  {Idle} \cup [at: {"signed"}, appr: ApprovalId]
         \cup [at: {"settle"}, rec: Rec, hops: Nat, on: Trigger]
         \cup [at: {"queue"}, rec: Rec, on: Trigger, next: Nat, clean: BOOLEAN]

(* The projections range over records, approvals and tasks; every task is  *)
(* named by the event that created it.                                     *)
TypeOK ==
  /\ live \in Projection /\ replay \in Projection
  /\ \A n \in live.tasks : n \in DOMAIN journal /\ journal[n].kind = "task"
  /\ skew \in BOOLEAN /\ unheard \subseteq DOMAIN journal /\ rough \subseteq Rec
  /\ op \in Continuation

(* A restart at any point of any call brings back the projection the calls *)
(* so far have shown: handlers and applyEvent change it alike, and no      *)
(* append that fails leaves a trace.  Two things skew it until the next    *)
(* restart: a change answered with an older event, an event nobody heard   *)
(* of.                                                                     *)
ReplayRestores == ~skew => live = replay

(* A record moves along its workflow only: each move starts at the state   *)
(* the journal had it in, is a declared transition, and unless a human     *)
(* signed it its guard held.  So while memory is not skewed: a call judges *)
(* by what is in memory, and appends what it found there.                  *)
OnlyDeclaredMoves ==
  [][\A n \in DOMAIN journal' \ DOMAIN journal :
       LET e == journal'[n] IN
       e.kind = "action" /\ ~skew =>
         /\ e.from = replay.state[e.rec]
         /\ \E i \in DOMAIN Transitions :
              /\ Transitions[i].action = e.action /\ Transitions[i].to = e.to
              /\ Leaves(Transitions[i], e.from)
              /\ e.appr # None \/ replay.data[e.rec] \in Transitions[i].when]_vars

(* A transition that is asked for and requires an approval happens only    *)
(* when signed: the last word on its approval is a grant, spent on this    *)
(* one move, and the move is the one that was asked for (Act, Decide).  An *)
(* auto transition is exempt: runAutoTransitions fires it unsigned even if *)
(* it requires an approval, of which "the transition does not exist        *)
(* without the signature" (DSL-SPEC-v0.md, section 4) says otherwise.      *)
MovesAreSigned ==
  \A n \in DOMAIN journal :
    LET e == journal[n] IN
    e.kind = "action" =>
      IF e.appr = None
      THEN \/ \E t \in FindTransition(e.action, e.from) : ~t.approval /\ t.to = e.to
           \/ IsAuto(e.action, e.from, e.to)
      ELSE \E g \in 1..(n - 1) :
             /\ journal[g].kind = "granted" /\ journal[g].appr = e.appr
             /\ \A m \in (g + 1)..(n - 1) : journal[m].appr # e.appr
             /\ \A m \in 1..(g - 1) :
                  (journal[m].kind = "requested" /\ journal[m].appr = e.appr)
                    => journal[m] = [e EXCEPT !.kind = "requested",
                                              !.key = journal[m].key]

(* "Decisions are final" (Decide): an approval is decided once, across     *)
(* restarts too, unless nobody heard of the first decision.                *)
DecisionsAreFinal ==
  \A m, n \in DOMAIN journal :
    (/\ m < n /\ journal[m].appr = journal[n].appr
     /\ {journal[m].kind, journal[n].kind} \subseteq {"granted", "rejected"})
      => m \in unheard

(* When the mutex is free no auto transition is left that could fire, on   *)
(* any record whose last change was seen through.  Not so after a crash or *)
(* an error in the change, or at the hop bound (rough): New settles no     *)
(* record (runAutoTransitions).                                            *)
Settled ==
  op = Idle =>
    \A r \in Rec \ rough :
      Exists(r) => \A i \in DOMAIN Transitions : ~Fires(Transitions[i], r)

(* Whoever is assigned a transition a record can take has a task for it,   *)
(* created since the record entered its state; but, as above, for rough    *)
(* records (ensureWorkflowTasks).                                          *)
WorkIsQueued ==
  op = Idle =>
    \A r \in Rec \ rough, i \in DOMAIN Transitions :
      (/\ Exists(r) /\ Transitions[i].assigned /\ ~Transitions[i].auto
       /\ Leaves(Transitions[i], live.state[r])) =>
        \E n \in live.tasks :
          /\ n > live.since[r]
          /\ journal[n].rec = r /\ journal[n].action = Transitions[i].action

(* Every call returns, whatever its appends answer and however the auto    *)
(* transitions chase each other: the mutex is not held for ever.           *)
LockIsReleased == op # Idle ~> op = Idle

(* "Projections are derivable" from the journal alone (EVENT-STORE-v0.md,  *)
(* section 0), whatever clients do: false, see the run workflow_retry.     *)
ProjectionIsReplay == op = Idle => live = replay
=============================================================================
