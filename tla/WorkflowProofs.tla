--------------------------- MODULE WorkflowProofs ---------------------------
(***************************************************************************)
(* A restart restores what the engine has shown, transitions are signed,   *)
(* and work settles: proved for any workflow block, any automation rules,  *)
(* any number of records and approvals, any length of the journal and any  *)
(* pattern of failures, crashes and retries.                               *)
(***************************************************************************)
EXTENDS Workflow, TLAPS, SequenceTheorems, WellFoundedInduction

ClientKey == {NoKey} \cup Keyed

TaskKeys ==
  {NoKey} \cup {TaskKey(r, action, n) : r \in Rec, action \in Action, n \in Nat}

(* The events the engine appends, kind by kind.                            *)
EventSet ==
  [kind: {"created"}, rec: Rec, data: Data, action: {None, "import"},
   from: {None}, to: State, appr: {None}, key: ClientKey]
  \cup
  [kind: {"updated"}, rec: Rec, data: Data, action: {None},
   from: {None}, to: {None}, appr: {None}, key: ClientKey]
  \cup
  [kind: {"action"}, rec: Rec, data: {None}, action: Action,
   from: State, to: State, appr: ApprovalId \cup {None}, key: ClientKey]
  \cup
  [kind: {"requested"}, rec: Rec, data: {None}, action: Action,
   from: State, to: State, appr: ApprovalId, key: ClientKey]
  \cup
  [kind: {"granted", "rejected"}, rec: {None}, data: {None}, action: {None},
   from: {None}, to: {None}, appr: ApprovalId, key: {NoKey}]
  \cup
  [kind: {"task"}, rec: Rec, data: {None}, action: Action \cup Task,
   from: {None}, to: {None}, appr: {None}, key: TaskKeys]

Known(r) == replay.state[r] # None

(* An approval that exists is about a record that exists.                  *)
AboutKnown(approval) == approval # NoApproval => Known(approval.rec)

(* The journal and the projection a restart would fold from it.            *)
JournalInv ==
  /\ journal \in Seq(EventSet)
  /\ replay \in Projection
  /\ replay.tasks = {n \in DOMAIN journal : journal[n].kind = "task"}
  /\ \A n \in DOMAIN journal : journal[n].rec \in Rec => Known(journal[n].rec)
  /\ \A a \in ApprovalId : AboutKnown(replay.appr[a])

(* The projection in memory speaks only of what the journal knows.         *)
LiveInv ==
  /\ live \in Projection
  /\ live.tasks \subseteq {n \in DOMAIN journal : journal[n].kind = "task"}
  /\ \A r \in Rec : Exists(r) => Known(r)
  /\ \A a \in ApprovalId : AboutKnown(live.appr[a])

(* A call goes on about a record or an approval that exists.               *)
CallInv ==
  /\ op \in Continuation
  /\ op.at \in {"settle", "queue"} => Exists(op.rec)
  /\ op.at = "signed" => live.appr[op.appr] # NoApproval

AuxInv == skew \in BOOLEAN /\ unheard \subseteq DOMAIN journal /\ rough \subseteq Rec

(* The inductive invariant. *)
WorkflowInv == JournalInv /\ LiveInv /\ CallInv /\ AuxInv /\ ReplayRestores

(* What no step undoes: the journal keeps its events, and a record the     *)
(* journal knows stays known.                                              *)
Grown ==
  /\ JournalInv'
  /\ DOMAIN journal \subseteq DOMAIN journal'
  /\ \A n \in DOMAIN journal : journal'[n] = journal[n]
  /\ \A r \in Rec : Known(r) => Known(r)'

-----------------------------------------------------------------------------
(* A client's key is never a task's.                                       *)
LEMMA KeysDiffer ==
  ASSUME NEW key \in ClientKey, key \in TaskKeys
  PROVE  key = NoKey
BY WorkflowAssumption DEF ClientKey, TaskKeys, TaskKey, Call, NoKey

(* The transitions and rules are what the compiled definitions say.        *)
LEMMA BlockType ==
  /\ \A i \in DOMAIN Transitions :
       Transitions[i].action \in Action /\ Transitions[i].to \in State
  /\ \A i \in DOMAIN Triggers : Triggers[i].task \in Task
<1>1. /\ \A i \in DOMAIN Transitions : Transitions[i] \in Transition
      /\ \A i \in DOMAIN Triggers : Triggers[i] \in Rule
  BY WorkflowAssumption
<1> QED
  BY <1>1 DEF Transition, Rule

LEMMA TransitionType ==
  /\ \A action, s : \A t \in FindTransition(action, s) :
       /\ t.action = action /\ t.action \in Action
       /\ t.to \in State
  /\ \A r : \A t \in NextAuto(r) : t.action \in Action /\ t.to \in State
BY BlockType DEF FindTransition, NextAuto

(* The constructors build events (the payloads the handlers append).       *)
LEMMA EventTypes ==
  /\ \A r \in Rec, d \in Data, s \in State, key \in ClientKey :
       Created(r, d, s, key) \in EventSet
  /\ \A r \in Rec, d \in Data, s \in State : Imported(r, d, s) \in EventSet
  /\ \A r \in Rec, d \in Data, key \in ClientKey :
       Updated(r, d, key) \in EventSet
  /\ \A r \in Rec, action \in Action, from \in State, to \in State,
        a \in ApprovalId \cup {None}, key \in ClientKey :
       Moved(r, action, from, to, a, key) \in EventSet
  /\ \A r \in Rec, action \in Action, from \in State, to \in State,
        a \in ApprovalId, key \in ClientKey :
       Requested(r, action, from, to, a, key) \in EventSet
  /\ \A kind \in {"granted", "rejected"}, a \in ApprovalId :
       Decided(kind, a) \in EventSet
  /\ \A r \in Rec, action \in Action \cup Task, key \in TaskKeys :
       TaskCreated(r, action, key) \in EventSet
BY DEF EventSet, Created, Imported, Updated, Moved, Requested, Decided,
       TaskCreated, Event, ClientKey

LEMMA DueTaskType ==
  ASSUME LiveInv, NEW r \in Rec, NEW on, NEW next \in Nat,
         NEW j \in DueAt(r, on, next)
  PROVE  /\ DueTask(r, j) \in EventSet
         /\ DueTask(r, j).kind = "task"
         /\ DueTask(r, j).rec = r
         /\ DueTask(r, j).key \in TaskKeys
<1>1. live.since[r] \in Nat
  BY DEF LiveInv, Projection
<1>2. CASE j \in DOMAIN Transitions
  <2>1. Transitions[j].action \in Action
    BY <1>2, BlockType
  <2>2. TaskKey(r, Transitions[j].action, live.since[r]) \in TaskKeys
    BY <1>1, <2>1 DEF TaskKeys
  <2> QED
    BY <1>2, <2>1, <2>2, EventTypes DEF DueTask, TaskCreated, Event
<1>3. CASE j \notin DOMAIN Transitions
  <2>1. j - Len(Transitions) \in DOMAIN Triggers
    BY <1>3 DEF DueAt, Due
  <2>2. Triggers[j - Len(Transitions)].task \in Task
    BY <2>1, BlockType
  <2> QED
    BY <1>3, <2>2, EventTypes DEF DueTask, TaskCreated, Event, TaskKeys
<1> QED
  BY <1>2, <1>3

-----------------------------------------------------------------------------
(* What applyEvent does to a projection, for an event of any kind.         *)
LEMMA ApplyType ==
  ASSUME NEW p \in Projection, NEW n \in Nat, NEW e \in EventSet
  PROVE  /\ ApplyEvent(p, n, e) \in Projection
         /\ ApplyEvent(p, n, e).tasks =
              IF e.kind = "task" THEN p.tasks \cup {n} ELSE p.tasks
         /\ \A r \in Rec :
              p.state[r] # None => ApplyEvent(p, n, e).state[r] # None
         /\ e.kind = "created" => ApplyEvent(p, n, e).state[e.rec] # None
         /\ \A a \in ApprovalId :
              \/ ApplyEvent(p, n, e).appr[a] = NoApproval
              \/ /\ p.appr[a] # NoApproval
                 /\ ApplyEvent(p, n, e).appr[a].rec = p.appr[a].rec
              \/ /\ e.kind = "requested"
                 /\ ApplyEvent(p, n, e).appr[a].rec = e.rec
<1>0. None \notin State
  BY WorkflowAssumption
<1>1. CASE e.kind = "created"
  BY <1>0, <1>1 DEF ApplyEvent, Projection, EventSet
<1>2. CASE e.kind = "updated"
  BY <1>0, <1>2 DEF ApplyEvent, Projection, EventSet
<1>3. CASE e.kind = "action"
  BY <1>0, <1>3 DEF ApplyEvent, Projection, EventSet
<1>4. CASE e.kind = "requested"
  BY <1>0, <1>4 DEF ApplyEvent, Projection, EventSet, Approval
<1>5. CASE e.kind \in {"granted", "rejected"}
  <2>1. e.appr \in ApprovalId
    BY <1>5 DEF EventSet
  <2>2. CASE p.appr[e.appr] = NoApproval
    BY <1>5, <2>2 DEF ApplyEvent, Projection
  <2>3. CASE p.appr[e.appr] # NoApproval
    <3>1. ApplyEvent(p, n, e) = [p EXCEPT !.appr[e.appr].status = e.kind]
      BY <1>5, <2>3 DEF ApplyEvent
    <3>2. p.appr[e.appr] \in
            [rec: Rec, action: Action, from: State, to: State,
             status: {"pending", "granted", "rejected"}]
      BY <2>1, <2>3 DEF Projection
    <3>3. [p.appr[e.appr] EXCEPT !.status = e.kind] \in
            [rec: Rec, action: Action, from: State, to: State,
             status: {"pending", "granted", "rejected"}]
      BY <1>5, <3>2
    <3>4. ApplyEvent(p, n, e) =
            [p EXCEPT !.appr =
               [p.appr EXCEPT ![e.appr] =
                  [p.appr[e.appr] EXCEPT !.status = e.kind]]]
      BY <2>1, <3>1 DEF Projection
    <3> QED
      BY <1>5, <2>1, <2>3, <3>2, <3>3, <3>4 DEF Projection
  <2> QED
    BY <2>2, <2>3
<1>6. CASE e.kind = "task"
  BY <1>0, <1>6 DEF ApplyEvent, Projection, EventSet
<1> QED
  BY <1>1, <1>2, <1>3, <1>4, <1>5, <1>6 DEF EventSet

-----------------------------------------------------------------------------
(* An append that stores its event: the journal grows by one event about a *)
(* record it knows, and the projection a restart folds takes it in.        *)
LEMMA StoredStep ==
  ASSUME JournalInv, NEW e \in EventSet, Stored(e),
         e.kind # "created" /\ e.rec \in Rec => Known(e.rec)
  PROVE  /\ Grown
         /\ NextSeq \in DOMAIN journal' /\ NextSeq \in Nat
         /\ journal'[NextSeq] = e
         /\ e.kind = "created" => Known(e.rec)'
<1>1. /\ journal \in Seq(EventSet) /\ Len(journal) \in Nat
      /\ DOMAIN journal = 1..Len(journal)
  BY DEF JournalInv
<1>2. /\ journal' \in Seq(EventSet) /\ Len(journal') = Len(journal) + 1
      /\ DOMAIN journal' = 1..(Len(journal) + 1)
      /\ journal'[Len(journal) + 1] = e
      /\ \A n \in DOMAIN journal : journal'[n] = journal[n]
  BY <1>1 DEF Stored
<1>3. NextSeq \in Nat /\ NextSeq = Len(journal) + 1
  BY <1>1 DEF NextSeq
<1>4. replay \in Projection /\ replay' = ApplyEvent(replay, NextSeq, e)
  BY DEF JournalInv, Stored
<1>5. /\ replay' \in Projection
      /\ replay'.tasks =
           IF e.kind = "task" THEN replay.tasks \cup {NextSeq} ELSE replay.tasks
      /\ \A r \in Rec : Known(r) => Known(r)'
      /\ e.kind = "created" => Known(e.rec)'
      /\ \A a \in ApprovalId :
           \/ replay'.appr[a] = NoApproval
           \/ /\ replay.appr[a] # NoApproval
              /\ replay'.appr[a].rec = replay.appr[a].rec
           \/ /\ e.kind = "requested"
              /\ replay'.appr[a].rec = e.rec
  <2> DEFINE p == ApplyEvent(replay, NextSeq, e)
  <2>1. /\ p \in Projection
        /\ p.tasks = IF e.kind = "task" THEN replay.tasks \cup {NextSeq} ELSE replay.tasks
        /\ \A r \in Rec : replay.state[r] # None => p.state[r] # None
        /\ e.kind = "created" => p.state[e.rec] # None
        /\ \A a \in ApprovalId :
             \/ p.appr[a] = NoApproval
             \/ /\ replay.appr[a] # NoApproval
                /\ p.appr[a].rec = replay.appr[a].rec
             \/ /\ e.kind = "requested"
                /\ p.appr[a].rec = e.rec
    BY <1>3, <1>4, ApplyType
  <2>2. replay' = p
    BY <1>4
  <2> HIDE DEF p
  <2> QED BY <2>1, <2>2 DEF Known
<1>6. replay'.tasks = {n \in DOMAIN journal' : journal'[n].kind = "task"}
  <2>1. replay.tasks = {n \in DOMAIN journal : journal[n].kind = "task"}
    BY DEF JournalInv
  <2>2. DOMAIN journal' = DOMAIN journal \cup {NextSeq}
    BY <1>1, <1>2, <1>3
  <2> QED
    BY <1>2, <1>3, <1>5, <2>1, <2>2
<1>7. (\A n \in DOMAIN journal :
         journal[n].rec \in Rec => Known(journal[n].rec))'
  <2>1. DOMAIN journal' = DOMAIN journal \cup {NextSeq}
    BY <1>1, <1>2, <1>3
  <2>2. \A n \in DOMAIN journal : journal[n].rec \in Rec => Known(journal[n].rec)
    BY DEF JournalInv
  <2> QED
    BY <1>2, <1>3, <1>5, <2>1, <2>2 DEF Known, EventSet
<1>8. \A a \in ApprovalId : AboutKnown(replay.appr[a])'
  <2> SUFFICES ASSUME NEW a \in ApprovalId, replay'.appr[a] # NoApproval
               PROVE  replay'.state[replay'.appr[a].rec] # None
    BY DEF AboutKnown, Known
  <2>1. CASE /\ replay.appr[a] # NoApproval
             /\ replay'.appr[a].rec = replay.appr[a].rec
    <3>1. Known(replay.appr[a].rec)
      BY <2>1 DEF JournalInv, AboutKnown
    <3>2. replay.appr[a].rec \in Rec
      BY <1>4, <2>1 DEF Projection
    <3> QED
      BY <1>5, <2>1, <3>1, <3>2 DEF Known
  <2>2. CASE e.kind = "requested" /\ replay'.appr[a].rec = e.rec
    <3>1. e.rec \in Rec
      BY <2>2 DEF EventSet
    <3>2. Known(e.rec)
      BY <2>2, <3>1
    <3> QED
      BY <1>5, <2>2, <3>1, <3>2 DEF Known
  <2> QED
    BY <1>5, <2>1, <2>2
<1>9. JournalInv'
  BY <1>2, <1>5, <1>6, <1>7, <1>8 DEF JournalInv
<1> QED
  BY <1>1, <1>2, <1>3, <1>5, <1>9 DEF Grown

LEMMA SameJournalGrows ==
  ASSUME JournalInv, UNCHANGED <<journal, replay>>
  PROVE  Grown
BY DEF Grown, JournalInv, Known, AboutKnown

(* An append that answers with an error, and a projection left alone.      *)
LEMMA ErrsStep ==
  ASSUME WorkflowInv, NEW e \in EventSet, Errs(e),
         e.kind # "created" /\ e.rec \in Rec => Known(e.rec)
  PROVE  Grown /\ AuxInv' /\ (UNCHANGED live => ReplayRestores')
<1>1. CASE UNCHANGED <<journal, replay, skew, unheard, rough>>
  BY <1>1, SameJournalGrows DEF WorkflowInv, AuxInv, ReplayRestores
<1>2. CASE /\ Stored(e) /\ skew' = TRUE /\ unheard' = unheard \cup {NextSeq}
           /\ rough' = rough \cup ({e.rec} \cap Rec)
  <2>1. Grown /\ NextSeq \in DOMAIN journal'
    BY <1>2, StoredStep DEF WorkflowInv
  <2> QED
    BY <1>2, <2>1 DEF WorkflowInv, AuxInv, ReplayRestores, Grown
<1> QED
  BY <1>1, <1>2 DEF Errs

(* The counters a step leaves alone, or adds its record to.                *)
LEMMA AuxKept ==
  ASSUME AuxInv, Grown, skew' \in {skew, TRUE}, UNCHANGED unheard,
         \/ UNCHANGED rough
         \/ \E r \in Rec : Changes(r)
  PROVE  AuxInv'
BY DEF AuxInv, Grown, Changes

LEMMA LiveKept ==
  ASSUME LiveInv, Grown, UNCHANGED live
  PROVE  LiveInv'
BY DEF LiveInv, Grown, Exists, Known, AboutKnown, Projection

-----------------------------------------------------------------------------
(* A record that moves, by a manual or an auto transition.                 *)
LEMMA MoveStep ==
  ASSUME WorkflowInv, NEW e \in EventSet, e.kind = "action", Exists(e.rec),
         Move(e)
  PROVE  /\ Grown /\ LiveInv' /\ AuxInv' /\ ReplayRestores'
         /\ Exists(e.rec)' /\ UNCHANGED live.appr
<1>1. /\ e.rec \in Rec /\ e.to \in State /\ e.to # None
      /\ Known(e.rec) /\ live \in Projection
  BY WorkflowAssumption DEF EventSet, WorkflowInv, LiveInv
<1>2. Changes(e.rec) /\ UNCHANGED unheard
  BY DEF Move
<1>3. PICK n :
        /\ live' = [live EXCEPT !.state[e.rec] = e.to, !.since[e.rec] = n]
        /\ \/ Stored(e) /\ n = NextSeq /\ UNCHANGED skew
           \/ Prior(e, n) /\ skew' = TRUE
  BY DEF Move
<1>4. Grown /\ n \in Nat
  <2>1. CASE Stored(e) /\ n = NextSeq
    BY <1>1, <2>1, StoredStep DEF WorkflowInv
  <2>2. CASE Prior(e, n)
    BY <2>2, SameJournalGrows
       DEF Prior, ByIdemKey, WorkflowInv, JournalInv
  <2> QED
    BY <1>3, <2>1, <2>2
<1>5. /\ live' \in Projection /\ live'.tasks = live.tasks
      /\ live'.appr = live.appr
      /\ \A r \in Rec \ {e.rec} : live'.state[r] = live.state[r]
      /\ live'.state[e.rec] = e.to
  BY <1>1, <1>3, <1>4 DEF Projection
<1>6. LiveInv'
  <2>1. \A a \in ApprovalId : AboutKnown(live.appr[a])'
    BY <1>4, <1>5 DEF WorkflowInv, LiveInv, AboutKnown, Grown, Projection
  <2>2. \A r \in Rec : Exists(r)' => Known(r)'
    BY <1>1, <1>4, <1>5 DEF WorkflowInv, LiveInv, Grown, Exists
  <2> QED
    BY <1>4, <1>5, <2>1, <2>2 DEF WorkflowInv, LiveInv, Grown
<1>7. AuxInv'
  BY <1>1, <1>2, <1>3, <1>4, AuxKept DEF WorkflowInv
<1>8. ReplayRestores'
  <2> SUFFICES ASSUME ~skew' PROVE live' = replay'
    BY DEF ReplayRestores
  <2>1. Stored(e) /\ n = NextSeq /\ live = replay
    BY <1>3 DEF WorkflowInv, ReplayRestores
  <2>2. live.state[e.rec] # None
    BY DEF Exists
  <2> QED
    BY <1>1, <1>3, <2>1, <2>2 DEF Stored, ApplyEvent, Projection
<1> QED
  BY <1>1, <1>4, <1>5, <1>6, <1>7, <1>8 DEF Exists

(* A record that enters the projection (Create, its retry, ImportRecord).  *)
LEMMA EnterStep ==
  ASSUME WorkflowInv, NEW e \in EventSet, e.kind = "created",
         NEW n \in Nat, Enter(e.rec, e.data, e.to, n), Grown, Known(e.rec)'
  PROVE  LiveInv' /\ Exists(e.rec)' /\ UNCHANGED live.appr
<1>1. /\ e.rec \in Rec /\ e.to \in State /\ e.to # None /\ e.data \in Data
      /\ live \in Projection
  BY WorkflowAssumption DEF EventSet, WorkflowInv, LiveInv
<1>2. /\ live' \in Projection /\ live'.tasks = live.tasks
      /\ live'.appr = live.appr
      /\ \A r \in Rec \ {e.rec} : live'.state[r] = live.state[r]
      /\ live'.state[e.rec] = e.to
  BY <1>1 DEF Projection, Enter
<1>3. \A a \in ApprovalId : AboutKnown(live.appr[a])'
  BY <1>2 DEF WorkflowInv, LiveInv, AboutKnown, Grown, Projection
<1>4. \A r \in Rec : Exists(r)' => Known(r)'
  BY <1>1, <1>2 DEF WorkflowInv, LiveInv, Grown, Exists
<1> QED
  BY <1>1, <1>2, <1>3, <1>4 DEF WorkflowInv, LiveInv, Grown, Exists

LEMMA KeyType ==
  /\ NoKey \in ClientKey /\ NoKey \in TaskKeys
  /\ \A call : KeyOf(call) \in ClientKey
BY DEF ClientKey, TaskKeys, KeyOf

(* Idle calls for nothing, and a step that goes on names its record.       *)
LEMMA CallTypes ==
  /\ Idle \in Continuation /\ Idle.at = "idle"
  /\ \A a \in ApprovalId :
       /\ Signed(a) \in Continuation
       /\ Signed(a).at = "signed" /\ Signed(a).appr = a
  /\ \A r \in Rec, on \in Trigger, hops \in Nat :
       /\ Settle(r, hops, on) \in Continuation
       /\ Settle(r, hops, on).at = "settle" /\ Settle(r, hops, on).rec = r
  /\ \A r \in Rec, on \in Trigger, next \in Nat, clean \in BOOLEAN :
       /\ Queue(r, on, next, clean) \in Continuation
       /\ Queue(r, on, next, clean).at = "queue"
       /\ Queue(r, on, next, clean).rec = r
BY DEF Continuation, Idle, Signed, Settle, Queue

(* An append that failed ends the call, or leaves it where it was.         *)
LEMMA ErrsEnds ==
  ASSUME WorkflowInv, NEW e \in EventSet, Errs(e), UNCHANGED live,
         e.kind # "created" /\ e.rec \in Rec => Known(e.rec),
         op' = op \/ op' = Idle
  PROVE  WorkflowInv'
<1>1. Grown /\ AuxInv' /\ ReplayRestores'
  BY ErrsStep
<1>2. LiveInv'
  BY <1>1, LiveKept DEF WorkflowInv
<1>3. CallInv'
  BY CallTypes DEF WorkflowInv, CallInv, Exists
<1> QED
  BY <1>1, <1>2, <1>3 DEF WorkflowInv, Grown

-----------------------------------------------------------------------------
LEMMA CreateStep ==
  ASSUME WorkflowInv, NEW r \in Rec, NEW d \in Data, NEW key \in ClientKey,
         Create(r, d, key)
  PROVE  WorkflowInv'
<1> DEFINE e == Created(r, d, InitialState, key)
<1>1. /\ e \in EventSet /\ e.kind = "created" /\ e.key = key
      /\ e.rec = r /\ e.data = d /\ e.to = InitialState
  BY WorkflowAssumption, EventTypes DEF Created, Event
<1> HIDE DEF e
<1>2. CASE Errs(e) /\ UNCHANGED <<live, op>>
  BY <1>1, <1>2, ErrsEnds
<1>3. CASE /\ \/ Stored(e) /\ Enter(r, d, InitialState, NextSeq)
              \/ \E n \in ByIdemKey(key) :
                   /\ journal[n].rec = r
                   /\ Prior(e, n)
                   /\ Enter(r, d, InitialState, n)
           /\ op' = Settle(r, 0, "create")
           /\ Changes(r) /\ UNCHANGED <<skew, unheard>>
  <2>1. CASE Stored(e) /\ Enter(r, d, InitialState, NextSeq)
    <3>1. Grown /\ Known(r)' /\ NextSeq \in Nat
      BY <1>1, <2>1, StoredStep DEF WorkflowInv
    <3>2. LiveInv' /\ Exists(r)'
      BY <1>1, <2>1, <3>1, EnterStep
    <3>3. AuxInv'
      BY <1>3, <3>1, AuxKept DEF WorkflowInv
    <3>4. ReplayRestores'
      BY <1>1, <1>3, <2>1
         DEF WorkflowInv, ReplayRestores, Stored, ApplyEvent, Enter
    <3>5. CallInv'
      BY <1>3, <3>2, CallTypes DEF CallInv, Exists, Trigger
    <3> QED
      BY <3>1, <3>2, <3>3, <3>4, <3>5 DEF WorkflowInv, Grown
  <2>2. ASSUME NEW n \in ByIdemKey(key), journal[n].rec = r, Prior(e, n),
               Enter(r, d, InitialState, n)
        PROVE  WorkflowInv'
    <3>1. Grown
      BY <2>2, SameJournalGrows DEF Prior, WorkflowInv
    <3>2. Known(r) /\ Known(r)' /\ n \in Nat
      BY <2>2, <3>1 DEF ByIdemKey, WorkflowInv, JournalInv, Grown
    <3>3. LiveInv' /\ Exists(r)'
      BY <1>1, <2>2, <3>1, <3>2, EnterStep
    <3>4. AuxInv'
      BY <1>3, <3>1, AuxKept DEF WorkflowInv
    <3>5. skew
      BY <3>2 DEF Create, Exists, Known, WorkflowInv, ReplayRestores, AuxInv
    <3>6. CallInv'
      BY <1>3, <3>3, CallTypes DEF CallInv, Exists, Trigger
    <3> QED
      BY <1>3, <3>1, <3>3, <3>4, <3>5, <3>6
         DEF WorkflowInv, Grown, ReplayRestores
  <2> QED
    BY <1>3, <2>1, <2>2
<1> QED
  BY <1>2, <1>3 DEF Create, e

LEMMA ImportStep ==
  ASSUME WorkflowInv, NEW r \in Rec, NEW d \in Data, NEW s \in State,
         ImportRecord(r, d, s)
  PROVE  WorkflowInv'
<1> DEFINE e == Imported(r, d, s)
<1>1. /\ e \in EventSet /\ e.kind = "created"
      /\ e.rec = r /\ e.data = d /\ e.to = s
  BY EventTypes DEF Imported, Event
<1> HIDE DEF e
<1>2. CASE Errs(e) /\ UNCHANGED <<live, op>>
  BY <1>1, <1>2, ErrsEnds
<1>3. CASE /\ Stored(e)
           /\ Enter(r, d, s, NextSeq)
           /\ Changes(r) /\ UNCHANGED <<op, skew, unheard>>
  <2>1. Grown /\ Known(r)' /\ NextSeq \in Nat
    BY <1>1, <1>3, StoredStep DEF WorkflowInv
  <2>2. LiveInv' /\ Exists(r)'
    BY <1>1, <1>3, <2>1, EnterStep
  <2>3. AuxInv'
    BY <1>3, <2>1, AuxKept DEF WorkflowInv
  <2>4. ReplayRestores'
    BY <1>1, <1>3 DEF WorkflowInv, ReplayRestores, Stored, ApplyEvent, Enter
  <2>5. CallInv'
    BY <1>3, CallTypes DEF ImportRecord, Begins, WorkflowInv, CallInv
  <2> QED
    BY <2>1, <2>2, <2>3, <2>4, <2>5 DEF WorkflowInv, Grown
<1> QED
  BY <1>2, <1>3 DEF ImportRecord, e

LEMMA UpdateStep ==
  ASSUME WorkflowInv, NEW r \in Rec, NEW d \in Data, NEW key \in ClientKey,
         Update(r, d, key)
  PROVE  WorkflowInv'
<1> DEFINE e == Updated(r, d, key)
<1>1. /\ e \in EventSet /\ e.kind = "updated" /\ e.key = key
      /\ e.rec = r /\ e.data = d
  BY EventTypes DEF Updated, Event
<1> HIDE DEF e
<1>2. Exists(r) /\ Known(r) /\ live \in Projection
  BY DEF Update, WorkflowInv, LiveInv
<1>3. CASE Errs(e) /\ UNCHANGED <<live, op>>
  BY <1>1, <1>2, <1>3, ErrsEnds
<1>4. CASE /\ \/ Stored(e) /\ UNCHANGED skew
              \/ (\E n \in ByIdemKey(key) : Prior(e, n)) /\ skew' = TRUE
           /\ live' = [live EXCEPT !.data[r] = d]
           /\ op' = Settle(r, 0, "update")
           /\ Changes(r) /\ UNCHANGED unheard
  <2>1. Grown
    BY <1>1, <1>2, <1>4, StoredStep, SameJournalGrows DEF Prior, WorkflowInv
  <2>2. /\ live' \in Projection /\ live'.state = live.state
        /\ live'.tasks = live.tasks /\ live'.appr = live.appr
    BY <1>2, <1>4 DEF Projection
  <2>3. LiveInv'
    BY <2>1, <2>2 DEF WorkflowInv, LiveInv, Grown, Exists, AboutKnown, Known,
                      Projection
  <2>4. AuxInv'
    BY <1>4, <2>1, AuxKept DEF WorkflowInv
  <2>5. ReplayRestores'
    BY <1>1, <1>2, <1>4
       DEF WorkflowInv, ReplayRestores, Stored, ApplyEvent, Exists
  <2>6. CallInv'
    BY <1>2, <1>4, <2>2, CallTypes DEF CallInv, Exists, Trigger
  <2> QED
    BY <2>1, <2>3, <2>4, <2>5, <2>6 DEF WorkflowInv, Grown
<1> QED
  BY <1>3, <1>4 DEF Update, e

(* A move of record r, wherever it comes from: applied, or it failed.      *)
LEMMA MoveOrErrs ==
  ASSUME WorkflowInv, NEW e \in EventSet, e.kind = "action", Exists(e.rec),
         \/ Move(e) /\ op' = Settle(e.rec, 0, "act")
         \/ Errs(e) /\ (op' = op \/ op' = Idle) /\ UNCHANGED live
  PROVE  WorkflowInv'
<1>1. e.rec \in Rec /\ Known(e.rec)
  BY DEF EventSet, WorkflowInv, LiveInv
<1>2. CASE Move(e) /\ op' = Settle(e.rec, 0, "act")
  <2>1. /\ Grown /\ LiveInv' /\ AuxInv' /\ ReplayRestores'
        /\ Exists(e.rec)'
    BY <1>2, MoveStep
  <2>2. CallInv'
    BY <1>1, <1>2, <2>1, CallTypes DEF CallInv, Exists, Trigger
  <2> QED
    BY <2>1, <2>2 DEF WorkflowInv, Grown
<1>3. CASE Errs(e) /\ (op' = op \/ op' = Idle) /\ UNCHANGED live
  BY <1>1, <1>3, ErrsEnds
<1> QED
  BY <1>2, <1>3

LEMMA ActStep ==
  ASSUME WorkflowInv, NEW r \in Rec, NEW action \in Action,
         NEW key \in ClientKey, Act(r, action, key)
  PROVE  WorkflowInv'
<1>1. /\ op = Idle /\ Exists(r) /\ Known(r) /\ live \in Projection
      /\ live.state[r] \in State
  BY DEF Act, Begins, WorkflowInv, LiveInv, Exists, Projection
<1>2. PICK t \in FindTransition(action, live.state[r]) :
        \/ LET e == Moved(r, action, live.state[r], t.to, None, key) IN
           \/ Move(e) /\ op' = Settle(r, 0, "act")
           \/ Errs(e) /\ UNCHANGED <<live, op>>
        \/ /\ Unused # {}
           /\ LET a == CHOOSE a \in Unused : TRUE
                  e == Requested(r, action, live.state[r], t.to, a, key)
              IN \/ /\ \/ Stored(e) /\ UNCHANGED skew
                       \/ /\ \E n \in ByIdemKey(key) : Prior(e, n)
                          /\ skew' = TRUE
                    /\ live' = [live EXCEPT !.appr[a] =
                         Approval(r, action, live.state[r], t.to, "pending")]
                    /\ UNCHANGED <<unheard, rough>>
                 \/ Errs(e) /\ UNCHANGED live
           /\ UNCHANGED op
  BY DEF Act
<1>3. t.action = action /\ t.to \in State
  BY TransitionType
<1>4. CASE LET e == Moved(r, action, live.state[r], t.to, None, key) IN
           \/ Move(e) /\ op' = Settle(r, 0, "act")
           \/ Errs(e) /\ UNCHANGED <<live, op>>
  <2> DEFINE e == Moved(r, action, live.state[r], t.to, None, key)
  <2>1. e \in EventSet /\ e.kind = "action" /\ e.rec = r
    BY <1>1, <1>3, EventTypes DEF Moved, Event
  <2> HIDE DEF e
  <2>2. \/ Move(e) /\ op' = Settle(e.rec, 0, "act")
        \/ Errs(e) /\ UNCHANGED <<live, op>>
    BY <1>4, <2>1 DEF e
  <2> QED
    BY <1>1, <2>1, <2>2, MoveOrErrs
<1>5. ASSUME NEW a \in Unused,
             LET e == Requested(r, action, live.state[r], t.to, a, key)
             IN \/ /\ \/ Stored(e) /\ UNCHANGED skew
                      \/ /\ \E n \in ByIdemKey(key) : Prior(e, n)
                         /\ skew' = TRUE
                   /\ live' = [live EXCEPT !.appr[a] =
                        Approval(r, action, live.state[r], t.to, "pending")]
                   /\ UNCHANGED <<unheard, rough>>
                \/ Errs(e) /\ UNCHANGED live,
             UNCHANGED op
      PROVE  WorkflowInv'
  <2> DEFINE e == Requested(r, action, live.state[r], t.to, a, key)
             p == Approval(r, action, live.state[r], t.to, "pending")
  <2>1. a \in ApprovalId
    BY <1>5 DEF Unused
  <2>2. /\ e \in EventSet /\ e.kind = "requested" /\ e.rec = r /\ e.appr = a
        /\ p = Approval(e.rec, e.action, e.from, e.to, "pending")
    BY <1>1, <1>3, <2>1, EventTypes DEF Requested, Event
  <2>3. /\ p \in [rec: Rec, action: Action, from: State, to: State,
                  status: {"pending", "granted", "rejected"}]
        /\ p.rec = r
    BY <1>1, <1>3 DEF Approval
  <2> HIDE DEF e, p
  <2>4. CASE Errs(e) /\ UNCHANGED live
    BY <1>1, <1>5, <2>2, <2>4, ErrsEnds
  <2>5. CASE /\ \/ Stored(e) /\ UNCHANGED skew
                \/ (\E n \in ByIdemKey(key) : Prior(e, n)) /\ skew' = TRUE
             /\ live' = [live EXCEPT !.appr[a] = p]
             /\ UNCHANGED <<unheard, rough>>
    <3>1. Grown
      BY <1>1, <2>2, <2>5, StoredStep, SameJournalGrows DEF Prior, WorkflowInv
    <3>2. /\ live' \in Projection /\ live'.state = live.state
          /\ live'.tasks = live.tasks
          /\ live'.appr = [live.appr EXCEPT ![a] = p]
      BY <1>1, <2>1, <2>3, <2>5 DEF Projection
    <3>3. \A b \in ApprovalId : AboutKnown(live.appr[b])'
      BY <1>1, <2>1, <2>3, <3>1, <3>2
         DEF WorkflowInv, LiveInv, AboutKnown, Grown, Projection, Known
    <3>4. LiveInv'
      BY <3>1, <3>2, <3>3 DEF WorkflowInv, LiveInv, Grown, Exists
    <3>5. AuxInv'
      BY <2>5, <3>1, AuxKept DEF WorkflowInv
    <3>6. ReplayRestores'
      BY <2>2, <2>5 DEF WorkflowInv, ReplayRestores, Stored, ApplyEvent
    <3>7. CallInv'
      BY <1>1, <1>5, CallTypes DEF CallInv
    <3> QED
      BY <3>1, <3>4, <3>5, <3>6, <3>7 DEF WorkflowInv, Grown
  <2> QED
    BY <1>5, <2>4, <2>5 DEF e, p
<1>6. CASE Unused # {}
  BY <1>2, <1>4, <1>5, <1>6
<1> QED
  BY <1>2, <1>4, <1>6

LEMMA DecideStep ==
  ASSUME WorkflowInv, NEW a \in ApprovalId, NEW kind \in {"granted", "rejected"},
         Decide(a, kind)
  PROVE  WorkflowInv'
<1> DEFINE e == Decided(kind, a)
<1>1. /\ e \in EventSet /\ e.kind = kind /\ e.rec = None /\ e.appr = a
  BY EventTypes DEF Decided, Event
<1> HIDE DEF e
<1>2. /\ op = Idle /\ live \in Projection
      /\ live.appr[a].status = "pending"
      /\ live.appr[a] # NoApproval
  BY DEF Decide, Begins, WorkflowInv, LiveInv, NoApproval, Approval
<1>3. None \notin Rec
  BY WorkflowAssumption
<1>4. CASE Errs(e) /\ UNCHANGED <<live, op>>
  BY <1>1, <1>3, <1>4, ErrsEnds
<1>5. CASE /\ Stored(e)
           /\ live' = [live EXCEPT !.appr[a].status = kind]
           /\ op' = IF kind = "granted" THEN Signed(a) ELSE Idle
           /\ UNCHANGED aux
  <2>1. Grown
    BY <1>1, <1>3, <1>5, StoredStep DEF WorkflowInv
  <2>2. live.appr[a] \in
          [rec: Rec, action: Action, from: State, to: State,
           status: {"pending", "granted", "rejected"}]
    BY <1>2 DEF Projection
  <2> DEFINE p == [live.appr[a] EXCEPT !.status = kind]
  <2>3. /\ p \in [rec: Rec, action: Action, from: State, to: State,
                  status: {"pending", "granted", "rejected"}]
        /\ p.rec = live.appr[a].rec /\ p.status = kind
    BY <2>2
  <2>4. live' = [live EXCEPT !.appr = [live.appr EXCEPT ![a] = p]]
    BY <1>2, <1>5 DEF Projection
  <2> HIDE DEF p
  <2>5. /\ live' \in Projection /\ live'.state = live.state
        /\ live'.tasks = live.tasks
        /\ live'.appr = [live.appr EXCEPT ![a] = p]
    BY <1>2, <2>3, <2>4 DEF Projection
  <2>6. \A b \in ApprovalId : AboutKnown(live.appr[b])'
    BY <1>2, <2>1, <2>2, <2>3, <2>5
       DEF WorkflowInv, LiveInv, AboutKnown, Grown, Projection, Known
  <2>8. LiveInv'
    BY <2>1, <2>5, <2>6 DEF WorkflowInv, LiveInv, Grown, Exists
  <2>9. AuxInv'
    BY <1>5, <2>1, AuxKept DEF WorkflowInv, aux
  <2>10. ReplayRestores'
    BY <1>1, <1>2, <1>5
       DEF WorkflowInv, ReplayRestores, Stored, ApplyEvent, aux
  <2>11. live'.appr[a] # NoApproval
    BY <1>2, <2>3, <2>5 DEF NoApproval, Approval, Projection
  <2>12. CallInv'
    BY <1>5, <2>11, CallTypes DEF CallInv
  <2> QED
    BY <2>1, <2>8, <2>9, <2>10, <2>12 DEF WorkflowInv, Grown
<1> QED
  BY <1>4, <1>5 DEF Decide, e

LEMMA MoveSignedStep ==
  ASSUME WorkflowInv, MoveSigned
  PROVE  WorkflowInv'
<1> DEFINE p == live.appr[op.appr]
           e == Moved(p.rec, p.action, p.from, p.to, op.appr, NoKey)
<1>1. op.at = "signed" /\ op.appr \in ApprovalId /\ p # NoApproval
  BY DEF MoveSigned, WorkflowInv, CallInv, Continuation, Idle
<1>2. /\ p.rec \in Rec /\ p.action \in Action
      /\ p.from \in State /\ p.to \in State
  BY <1>1 DEF WorkflowInv, LiveInv, Projection
<1>3. e \in EventSet /\ e.kind = "action" /\ e.rec = p.rec
  BY <1>1, <1>2, KeyType, EventTypes DEF Moved, Event
<1> HIDE DEF p, e
<1>4. CASE op' = Idle /\ UNCHANGED <<journal, live, replay, aux>>
  <2>1. Grown
    BY <1>4, SameJournalGrows DEF WorkflowInv
  <2>2. LiveInv'
    BY <1>4, <2>1, LiveKept DEF WorkflowInv
  <2>3. AuxInv' /\ ReplayRestores'
    BY <1>4 DEF WorkflowInv, AuxInv, ReplayRestores, aux
  <2>4. CallInv'
    BY <1>4, CallTypes DEF CallInv
  <2> QED
    BY <2>1, <2>2, <2>3, <2>4 DEF WorkflowInv, Grown
<1>5. CASE /\ live.state[p.rec] = p.from
           /\ \/ Move(e) /\ op' = Settle(p.rec, 0, "act")
              \/ Errs(e) /\ op' = Idle /\ UNCHANGED live
  <2>1. Exists(e.rec)
    BY <1>2, <1>3, <1>5, WorkflowAssumption DEF Exists
  <2> QED
    BY <1>3, <1>5, <2>1, MoveOrErrs
<1> QED
  BY <1>4, <1>5 DEF MoveSigned, p, e

LEMMA HopStep ==
  ASSUME WorkflowInv, Hop
  PROVE  WorkflowInv'
<1>1. /\ op.at = "settle" /\ op \in Continuation /\ op.rec \in Rec
      /\ op.hops \in Nat /\ Exists(op.rec) /\ live.state[op.rec] \in State
  BY DEF Hop, WorkflowInv, CallInv, Continuation, Idle, LiveInv, Projection,
         Exists
<1>2. PICK t \in NextAuto(op.rec) :
        LET e == Moved(op.rec, t.action, live.state[op.rec], t.to, None, NoKey)
        IN \/ Move(e)
           \/ Errs(e) /\ UNCHANGED live
  BY DEF Hop
<1> DEFINE e == Moved(op.rec, t.action, live.state[op.rec], t.to, None, NoKey)
<1>3. e \in EventSet /\ e.kind = "action" /\ e.rec = op.rec
  BY <1>1, TransitionType, KeyType, EventTypes DEF Moved, Event
<1> HIDE DEF e
<1>4. Known(e.rec)
  BY <1>1, <1>3 DEF WorkflowInv, LiveInv
<1>5. /\ Grown /\ LiveInv' /\ AuxInv' /\ ReplayRestores'
      /\ live'.state[op.rec] # None
  <2>1. CASE Move(e)
    BY <1>1, <1>3, <2>1, MoveStep DEF Exists
  <2>2. CASE Errs(e) /\ UNCHANGED live
    <3>1. Grown /\ AuxInv' /\ ReplayRestores'
      BY <1>3, <1>4, <2>2, ErrsStep
    <3>2. LiveInv'
      BY <2>2, <3>1, LiveKept DEF WorkflowInv
    <3> QED
      BY <1>1, <2>2, <3>1, <3>2 DEF Exists
  <2> QED
    BY <1>2, <2>1, <2>2 DEF e
<1>6. op' = [op EXCEPT !.hops = @ + 1]
  BY DEF Hop
<1>7. op' \in Continuation /\ op'.at = "settle" /\ op'.rec = op.rec
  <2>1. op \in [at: {"settle"}, rec: Rec, hops: Nat, on: Trigger]
    BY <1>1 DEF Continuation, Idle
  <2>2. op' \in [at: {"settle"}, rec: Rec, hops: Nat, on: Trigger]
    BY <1>1, <1>6, <2>1
  <2> QED
    BY <1>1, <1>6, <2>1, <2>2 DEF Continuation
<1>8. CallInv'
  BY <1>5, <1>7 DEF CallInv, Exists
<1> QED
  BY <1>5, <1>8 DEF WorkflowInv, Grown

(* A step of the call that touches neither the journal nor a projection.   *)
LEMMA CallMovesOn ==
  ASSUME WorkflowInv, UNCHANGED <<journal, live, replay, skew, unheard>>,
         rough' \subseteq rough, CallInv'
  PROVE  WorkflowInv'
<1>1. Grown
  BY SameJournalGrows DEF WorkflowInv
<1>2. LiveInv'
  BY <1>1, LiveKept DEF WorkflowInv
<1>3. AuxInv' /\ ReplayRestores'
  BY DEF WorkflowInv, AuxInv, ReplayRestores
<1> QED
  BY <1>1, <1>2, <1>3 DEF WorkflowInv, Grown

LEMMA HopsDoneStep ==
  ASSUME WorkflowInv, HopsDone
  PROVE  WorkflowInv'
<1>1. /\ op \in [at: {"settle"}, rec: Rec, hops: Nat, on: Trigger]
      /\ Exists(op.rec)
  BY DEF HopsDone, WorkflowInv, CallInv, Continuation, Idle
<1>2. \E clean \in BOOLEAN : op' = Queue(op.rec, op.on, 1, clean)
  <2>1. (op.hops < HopLimit) \in BOOLEAN
    OBVIOUS
  <2> QED
    BY <2>1, Zenon DEF HopsDone
<1>3. CallInv'
  <2>1. op.rec \in Rec /\ op.on \in Trigger /\ UNCHANGED live
    BY <1>1 DEF HopsDone
  <2>2. op' \in Continuation /\ op'.at = "queue" /\ op'.rec = op.rec
    BY <1>2, <2>1, CallTypes
  <2> QED
    BY <1>1, <2>1, <2>2 DEF CallInv, Exists
<1>4. UNCHANGED <<journal, live, replay, skew, unheard>> /\ rough' = rough
  BY DEF HopsDone, aux
<1> QED
  BY <1>3, <1>4, CallMovesOn

LEMMA ReturnStep ==
  ASSUME WorkflowInv, Return
  PROVE  WorkflowInv'
<1>1. op' = Idle
  BY DEF Return
<1>2. CallInv'
  BY <1>1, CallTypes DEF CallInv
<1> QED
  BY <1>2, CallMovesOn DEF Return

LEMMA RestartStep ==
  ASSUME WorkflowInv, Restart
  PROVE  WorkflowInv'
<1>1. Grown
  BY SameJournalGrows DEF WorkflowInv, Restart
<1>2. LiveInv'
  BY DEF WorkflowInv, JournalInv, Restart, LiveInv, Exists, Known, AboutKnown
<1>3. AuxInv' /\ ReplayRestores'
  BY DEF WorkflowInv, AuxInv, ReplayRestores, Restart
<1>4. op' = Idle
  BY DEF Restart
<1>5. CallInv'
  BY <1>4, CallTypes DEF CallInv
<1> QED
  BY <1>1, <1>2, <1>3, <1>5 DEF WorkflowInv, Grown

LEMMA CreateTaskStep ==
  ASSUME WorkflowInv, CreateTask
  PROVE  WorkflowInv'
<1>1. /\ op \in [at: {"queue"}, rec: Rec, on: Trigger, next: Nat, clean: BOOLEAN]
      /\ Exists(op.rec) /\ Known(op.rec) /\ live \in Projection
  BY DEF CreateTask, WorkflowInv, CallInv, Continuation, Idle, LiveInv
<1>2. PICK j \in DueAt(op.rec, op.on, op.next) :
        LET e == DueTask(op.rec, j) IN
        \/ /\ \/ Stored(e) /\ live' = [live EXCEPT !.tasks = @ \cup {NextSeq}]
              \/ \E n \in ByIdemKey(e.key) :
                   Prior(e, n) /\ live' = [live EXCEPT !.tasks = @ \cup {n}]
           /\ op' = [op EXCEPT !.next = j + 1]
           /\ UNCHANGED aux
        \/ /\ Errs(e)
           /\ op' = [op EXCEPT !.next = j + 1, !.clean = @ /\ e.key = NoKey]
           /\ UNCHANGED live
  BY DEF CreateTask
<1> DEFINE e == DueTask(op.rec, j)
<1>3. /\ e \in EventSet /\ e.kind = "task" /\ e.rec = op.rec
      /\ e.key \in TaskKeys
  BY <1>1, DueTaskType DEF WorkflowInv
<1>4. j + 1 \in Nat
  BY <1>1 DEF DueAt
<1> HIDE DEF e
<1>5. /\ UNCHANGED live.state /\ UNCHANGED live.appr
      /\ op' \in [at: {"queue"}, rec: Rec, on: Trigger, next: Nat,
                  clean: BOOLEAN]
      /\ op'.rec = op.rec
  <2>1. CASE op' = [op EXCEPT !.next = j + 1]
    BY <1>1, <1>2, <1>4, <2>1 DEF Projection
  <2>2. CASE op' = [op EXCEPT !.next = j + 1, !.clean = @ /\ e.key = NoKey]
    <3> DEFINE b == op.clean /\ e.key = NoKey
    <3>1. b \in BOOLEAN
      OBVIOUS
    <3>2. op' = [op EXCEPT !.next = j + 1, !.clean = b]
      BY <2>2
    <3> HIDE DEF b
    <3>3. /\ op' \in [at: {"queue"}, rec: Rec, on: Trigger, next: Nat,
                      clean: BOOLEAN]
          /\ op'.rec = op.rec
      BY <1>1, <1>4, <3>1, <3>2
    <3> QED
      BY <1>1, <1>2, <3>3 DEF Projection
  <2> QED
    BY <1>2, <2>1, <2>2 DEF e
<1>6. CallInv'
  BY <1>1, <1>5 DEF CallInv, Continuation, Exists
<1>7. CASE Errs(e) /\ UNCHANGED live
  <2>1. Grown /\ AuxInv' /\ ReplayRestores'
    BY <1>1, <1>3, <1>7, ErrsStep
  <2>2. LiveInv'
    BY <1>7, <2>1, LiveKept DEF WorkflowInv
  <2> QED
    BY <1>6, <2>1, <2>2 DEF WorkflowInv, Grown
<1>8. ASSUME NEW n, live' = [live EXCEPT !.tasks = @ \cup {n}], UNCHANGED aux,
             \/ Stored(e) /\ n = NextSeq
             \/ n \in ByIdemKey(e.key) /\ Prior(e, n)
      PROVE  WorkflowInv'
  <2>1. /\ Grown /\ n \in DOMAIN journal' /\ n \in Nat
        /\ journal'[n].kind = "task"
    <3>1. CASE Stored(e) /\ n = NextSeq
      BY <1>1, <1>3, <3>1, StoredStep DEF WorkflowInv
    <3>2. CASE n \in ByIdemKey(e.key) /\ Prior(e, n)
      <4>1. /\ n \in DOMAIN journal /\ n \in Nat /\ journal[n] \in EventSet
            /\ journal[n].key = e.key /\ e.key # NoKey
        BY <3>2 DEF ByIdemKey, WorkflowInv, JournalInv
      <4>2. journal[n].key \notin ClientKey
        BY <1>3, <4>1, KeysDiffer
      <4>3. journal[n].kind = "task"
        BY <4>1, <4>2, KeyType DEF EventSet
      <4>4. Grown /\ UNCHANGED journal
        BY <3>2, SameJournalGrows DEF Prior, WorkflowInv
      <4> QED
        BY <4>1, <4>3, <4>4
    <3> QED
      BY <1>8, <3>1, <3>2
  <2>2. /\ live' \in Projection /\ live'.tasks = live.tasks \cup {n}
        /\ live'.state = live.state /\ live'.appr = live.appr
    BY <1>1, <1>8, <2>1 DEF Projection
  <2>3. \A a \in ApprovalId : AboutKnown(live.appr[a])'
    BY <2>1, <2>2 DEF WorkflowInv, LiveInv, AboutKnown, Grown, Projection
  <2>4. LiveInv'
    BY <2>1, <2>2, <2>3 DEF WorkflowInv, LiveInv, Grown, Exists
  <2>5. AuxInv'
    BY <1>8, <2>1, AuxKept DEF WorkflowInv, aux
  <2>6. ReplayRestores'
    <3> SUFFICES ASSUME ~skew' PROVE live' = replay'
      BY DEF ReplayRestores
    <3>1. live = replay
      BY <1>8 DEF WorkflowInv, ReplayRestores, aux
    <3>2. CASE Stored(e) /\ n = NextSeq
      BY <1>3, <1>8, <3>1, <3>2 DEF Stored, ApplyEvent
    <3>3. CASE n \in ByIdemKey(e.key) /\ Prior(e, n)
      <4>1. n \in replay.tasks /\ UNCHANGED replay
        BY <2>1, <3>3 DEF Prior, WorkflowInv, JournalInv, Grown
      <4>2. live.tasks \cup {n} = live.tasks
        BY <3>1, <4>1
      <4> QED
        BY <1>1, <1>8, <3>1, <4>1, <4>2 DEF Projection
    <3> QED
      BY <1>8, <3>2, <3>3
  <2> QED
    BY <1>6, <2>1, <2>4, <2>5, <2>6 DEF WorkflowInv, Grown
<1> QED
  BY <1>2, <1>7, <1>8 DEF e

-----------------------------------------------------------------------------
LEMMA InvInit ==
  ASSUME Init
  PROVE  WorkflowInv
<1>1. NoProjection \in Projection
  BY DEF NoProjection, Projection
<1>2. JournalInv
  BY <1>1 DEF Init, JournalInv, NoProjection, AboutKnown
<1>3. LiveInv
  BY <1>1 DEF Init, LiveInv, NoProjection, AboutKnown, Exists
<1>4. CallInv /\ AuxInv /\ ReplayRestores
  BY CallTypes DEF Init, CallInv, AuxInv, ReplayRestores
<1> QED
  BY <1>2, <1>3, <1>4 DEF WorkflowInv

LEMMA InvStep ==
  ASSUME WorkflowInv, [Next]_vars
  PROVE  WorkflowInv'
<1>1. CASE UNCHANGED vars
  BY <1>1 DEF vars, aux, WorkflowInv, JournalInv, LiveInv, CallInv, AuxInv,
              ReplayRestores, Known, AboutKnown, Exists
<1>2. CASE Next
  BY <1>2, KeyType, CreateStep, UpdateStep, ImportStep, ActStep, DecideStep,
     MoveSignedStep, HopStep, HopsDoneStep, CreateTaskStep, ReturnStep,
     RestartStep DEF Next, Step
<1> QED
  BY <1>1, <1>2

(* The journal, the projection, the one a restart would fold and the call  *)
(* in progress agree in every reachable state.                             *)
THEOREM EngineIsSound == Spec => []WorkflowInv
BY InvInit, InvStep, PTL DEF Spec

(* Types: the projections of engine.go hold records, approvals and tasks,  *)
(* each task named by the event that created it.                           *)
THEOREM TypesHold == Spec => []TypeOK
<1>1. WorkflowInv => TypeOK
  BY DEF WorkflowInv, JournalInv, LiveInv, CallInv, AuxInv, TypeOK
<1> QED
  BY <1>1, EngineIsSound, PTL

(* New after a crash folds the journal into the projection the engine had  *)
(* shown, at whatever point of whatever call the crash came.               *)
THEOREM RestartRestores == Spec => []ReplayRestores
<1>1. WorkflowInv => ReplayRestores
  BY DEF WorkflowInv
<1> QED
  BY <1>1, EngineIsSound, PTL
-----------------------------------------------------------------------------
(***************************************************************************)
(* What the records of a workflow go through.  Signatures: a transition    *)
(* that needs an approval happens only by a grant of its own, a decision   *)
(* is final, and every move is a declared one.  Settling: whatever fails,  *)
(* retries or crashes, a record whose last change was seen through has no  *)
(* auto transition left to take and a task for every assigned one.         *)
(***************************************************************************)
Decision == {"granted", "rejected"}

(* Approval p asks for the move that event e asks for, or makes.           *)
AsksFor(p, e) ==
  p.rec = e.rec /\ p.action = e.action /\ p.from = e.from /\ p.to = e.to

(* Some transition of the workflow block makes this move.                  *)
IsDeclared(action, from, to) ==
  \E i \in DOMAIN Transitions :
    /\ Transitions[i].action = action /\ Transitions[i].to = to
    /\ Leaves(Transitions[i], from)

(* The request, made under some key, for the move that e is.               *)
Request(e, key) == [e EXCEPT !.kind = "requested", !.key = key]

(* In journal j event e, stored as number n, needs no signature or has its *)
(* own.                                                                    *)
IsSigned(j, e, n) ==
  IF e.appr = None
  THEN \/ \E t \in FindTransition(e.action, e.from) : ~t.approval /\ t.to = e.to
       \/ IsAuto(e.action, e.from, e.to)
  ELSE \E g \in 1..(n - 1) :
         /\ j[g].kind = "granted" /\ j[g].appr = e.appr
         /\ \A m \in (g + 1)..(n - 1) : j[m].appr # e.appr
         /\ \A m \in 1..(g - 1) :
              (j[m].kind = "requested" /\ j[m].appr = e.appr)
                => j[m] = Request(e, j[m].key)

(* Nobody asks twice under one id: what the journal, memory and a restart  *)
(* call approval a is one move.                                            *)
OneRequest ==
  \A n \in DOMAIN journal :
    journal[n].kind = "requested" =>
      LET a == journal[n].appr IN
      /\ AsksFor(replay.appr[a], journal[n])
      /\ live.appr[a] # NoApproval => AsksFor(live.appr[a], journal[n])

(* A restart never offers a decided approval for another decision, and     *)
(* memory offers it only if nobody heard of the first.                     *)
Closed ==
  \A n \in DOMAIN journal :
    journal[n].kind \in Decision =>
      LET a == journal[n].appr IN
      /\ replay.appr[a].status # "pending"
      /\ n \in unheard \/ live.appr[a].status # "pending"

(* Between the two appends of Decide nothing else is stored.               *)
GrantIsLast ==
  op.at = "signed" =>
    /\ Len(journal) \in DOMAIN journal
    /\ journal[Len(journal)].kind = "granted"
    /\ journal[Len(journal)].appr = op.appr

DeclaredIn(p) ==
  \A a \in ApprovalId :
    p.appr[a] # NoApproval =>
      IsDeclared(p.appr[a].action, p.appr[a].from, p.appr[a].to)

ApprovalInv ==
  /\ OneRequest /\ Closed /\ GrantIsLast
  /\ DeclaredIn(live) /\ DeclaredIn(replay)
  /\ DecisionsAreFinal /\ MovesAreSigned

-----------------------------------------------------------------------------
(* At most one transition is found, and none for the name of an auto one.  *)
LEMMA FindsOne ==
  ASSUME NEW action, NEW s
  PROVE  /\ \A t, u \in FindTransition(action, s) : t = u
         /\ \A t \in FindTransition(action, s) : IsDeclared(action, s, t.to)
<1>1. ASSUME NEW t \in FindTransition(action, s), NEW u \in FindTransition(action, s)
      PROVE  t = u
  <2>1. PICK i \in DOMAIN Transitions :
          /\ t = Transitions[i] /\ t.action = action /\ ~t.auto /\ Leaves(t, s)
          /\ \A j \in 1..(i - 1) :
               ~(/\ Transitions[j].action = action /\ ~Transitions[j].auto
                 /\ Leaves(Transitions[j], s))
    BY <1>1 DEF FindTransition
  <2>2. PICK k \in DOMAIN Transitions :
          /\ u = Transitions[k] /\ u.action = action /\ ~u.auto /\ Leaves(u, s)
          /\ \A j \in 1..(k - 1) :
               ~(/\ Transitions[j].action = action /\ ~Transitions[j].auto
                 /\ Leaves(Transitions[j], s))
    BY <1>1 DEF FindTransition
  <2>3. i \in Nat /\ k \in Nat /\ i >= 1 /\ k >= 1
    BY WorkflowAssumption
  <2>4. i \notin 1..(k - 1) /\ k \notin 1..(i - 1)
    BY <2>1, <2>2
  <2>5. i = k
    BY <2>3, <2>4
  <2> QED
    BY <2>1, <2>2, <2>5
<1>2. \A t \in FindTransition(action, s) : IsDeclared(action, s, t.to)
  BY DEF FindTransition, IsDeclared
<1> QED
  BY <1>1, <1>2

LEMMA AutoIsUnsigned ==
  ASSUME NEW r, NEW t \in NextAuto(r), NEW s
  PROVE  /\ FindTransition(t.action, s) = {}
         /\ IsDeclared(t.action, live.state[r], t.to)
         /\ IsAuto(t.action, live.state[r], t.to)
         /\ \E i \in DOMAIN Transitions : t = Transitions[i]
         /\ Fires(t, r)
<1>1. PICK i \in DOMAIN Transitions : t = Transitions[i] /\ Fires(t, r)
  BY DEF NextAuto
<1>2. t.auto /\ Leaves(t, live.state[r])
  BY <1>1 DEF Fires
<1>3. \A j \in DOMAIN Transitions :
        Transitions[j].action = t.action => Transitions[j].auto
  BY <1>1, <1>2, AutoAssumption
<1> QED
  BY <1>1, <1>2, <1>3 DEF FindTransition, IsDeclared, IsAuto

(* What applyEvent does to the approvals, by kind of event.                *)
LEMMA OtherLeavesApprovals ==
  ASSUME NEW p \in Projection, NEW n \in Nat, NEW e \in EventSet,
         e.kind \notin {"requested", "granted", "rejected"}
  PROVE  ApplyEvent(p, n, e).appr = p.appr
<1>1. CASE e.kind = "created"
  BY <1>1 DEF ApplyEvent, Projection
<1>2. CASE e.kind = "updated"
  BY <1>2 DEF ApplyEvent, Projection
<1>3. CASE e.kind = "action"
  BY <1>3 DEF ApplyEvent, Projection
<1>4. CASE e.kind = "task"
  BY <1>4 DEF ApplyEvent, Projection
<1> QED
  BY <1>1, <1>2, <1>3, <1>4 DEF EventSet

LEMMA RequestOpensOne ==
  ASSUME NEW p \in Projection, NEW n \in Nat, NEW e \in EventSet,
         e.kind = "requested"
  PROVE  \A b \in ApprovalId :
           ApplyEvent(p, n, e).appr[b] =
             IF b = e.appr
             THEN Approval(e.rec, e.action, e.from, e.to, "pending")
             ELSE p.appr[b]
BY DEF ApplyEvent, Projection

(* The approval keeps what it asks for and is not pending any more.        *)
Closes(old, new) ==
  /\ new.status # "pending"
  /\ \/ old = NoApproval /\ new = NoApproval
     \/ /\ old # NoApproval
        /\ new.rec = old.rec /\ new.action = old.action
        /\ new.from = old.from /\ new.to = old.to

LEMMA StatusCloses ==
  ASSUME NEW p \in Projection, NEW q, NEW a \in ApprovalId,
         NEW kind \in Decision, p.appr[a] # NoApproval,
         q = [p EXCEPT !.appr[a].status = kind]
  PROVE  /\ Closes(p.appr[a], q.appr[a])
         /\ \A b \in ApprovalId \ {a} : q.appr[b] = p.appr[b]
<1>1. p.appr[a] \in
        [rec: Rec, action: Action, from: State, to: State,
         status: {"pending", "granted", "rejected"}]
  BY DEF Projection
<1>2. q.appr = [p.appr EXCEPT ![a] = [p.appr[a] EXCEPT !.status = kind]]
  BY DEF Projection
<1>3. q.appr[a] = [p.appr[a] EXCEPT !.status = kind]
  BY <1>2 DEF Projection
<1>4. \A b \in ApprovalId \ {a} : q.appr[b] = p.appr[b]
  BY <1>2 DEF Projection
<1> QED
  BY <1>1, <1>3, <1>4 DEF Decision, Closes

LEMMA DecisionCloses ==
  ASSUME NEW p \in Projection, NEW n \in Nat, NEW e \in EventSet,
         e.kind \in Decision
  PROVE  /\ Closes(p.appr[e.appr], ApplyEvent(p, n, e).appr[e.appr])
         /\ \A b \in ApprovalId \ {e.appr} :
              ApplyEvent(p, n, e).appr[b] = p.appr[b]
<1>1. e.appr \in ApprovalId
  BY DEF EventSet, Decision
<1>2. CASE p.appr[e.appr] = NoApproval
  BY <1>2 DEF ApplyEvent, Decision, Closes, NoApproval, Approval
<1>3. CASE p.appr[e.appr] # NoApproval
  <2> DEFINE q == ApplyEvent(p, n, e)
  <2>1. q = [p EXCEPT !.appr[e.appr].status = e.kind]
    BY <1>3 DEF ApplyEvent, Decision
  <2>2. p.appr[e.appr] \in
          [rec: Rec, action: Action, from: State, to: State,
           status: {"pending", "granted", "rejected"}]
    BY <1>1, <1>3 DEF Projection
  <2> HIDE DEF q
  <2>3. q.appr =
          [p.appr EXCEPT ![e.appr] = [p.appr[e.appr] EXCEPT !.status = e.kind]]
    BY <1>1, <2>1 DEF Projection
  <2>4. /\ q.appr[e.appr] = [p.appr[e.appr] EXCEPT !.status = e.kind]
        /\ \A b \in ApprovalId \ {e.appr} : q.appr[b] = p.appr[b]
    BY <1>1, <2>3 DEF Projection
  <2>5. Closes(p.appr[e.appr], q.appr[e.appr])
    BY <1>3, <2>2, <2>4 DEF Decision, Closes
  <2> QED
    BY <2>4, <2>5 DEF q
<1> QED
  BY <1>2, <1>3

(* An append that stores its event, seen from the journal alone.           *)
LEMMA OneMore ==
  ASSUME WorkflowInv, NEW e \in EventSet, Stored(e)
  PROVE  /\ Len(journal) \in Nat /\ NextSeq = Len(journal) + 1
         /\ DOMAIN journal = 1..Len(journal)
         /\ DOMAIN journal' = DOMAIN journal \cup {NextSeq}
         /\ Len(journal') = NextSeq
         /\ journal'[NextSeq] = e
         /\ \A n \in DOMAIN journal : n # NextSeq /\ journal'[n] = journal[n]
         /\ replay \in Projection /\ replay' = ApplyEvent(replay, NextSeq, e)
<1>1. /\ journal \in Seq(EventSet) /\ Len(journal) \in Nat
      /\ DOMAIN journal = 1..Len(journal)
  BY DEF WorkflowInv, JournalInv
<1>2. /\ Len(journal') = Len(journal) + 1
      /\ DOMAIN journal' = 1..(Len(journal) + 1)
      /\ journal'[Len(journal) + 1] = e
      /\ \A n \in DOMAIN journal : journal'[n] = journal[n]
  BY <1>1 DEF Stored
<1> QED
  BY <1>1, <1>2 DEF NextSeq, Stored, WorkflowInv, JournalInv

(* What a signature rests on lies in the past: it stays.                   *)
LEMMA StaysSigned ==
  ASSUME WorkflowInv, NEW e \in EventSet, Stored(e),
         NEW f, NEW n \in 1..NextSeq, IsSigned(journal, f, n)
  PROVE  IsSigned(journal', f, n)
<1>1. \A m \in 1..(n - 1) : m \in DOMAIN journal /\ journal'[m] = journal[m]
  BY OneMore
<1>2. n \in Nat
  BY OneMore
<1>3. CASE f.appr = None
  BY <1>3 DEF IsSigned
<1>4. CASE f.appr # None
  <2>1. PICK g \in 1..(n - 1) :
         /\ journal[g].kind = "granted" /\ journal[g].appr = f.appr
         /\ \A m \in (g + 1)..(n - 1) : journal[m].appr # f.appr
         /\ \A m \in 1..(g - 1) :
              (journal[m].kind = "requested" /\ journal[m].appr = f.appr)
                => journal[m] = Request(f, journal[m].key)
    BY <1>4 DEF IsSigned
  <2>2. /\ journal'[g] = journal[g]
        /\ \A m \in (g + 1)..(n - 1) : journal'[m] = journal[m]
        /\ \A m \in 1..(g - 1) : journal'[m] = journal[m]
    BY <1>1, <1>2
  <2> QED
    BY <1>4, <2>1, <2>2 DEF IsSigned
<1> QED
  BY <1>3, <1>4

(* The journal gains event e, which needs no signature or has its own.     *)
LEMMA MovesStaySigned ==
  ASSUME WorkflowInv, MovesAreSigned, NEW e \in EventSet, Stored(e),
         e.kind = "action" => IsSigned(journal, e, NextSeq)
  PROVE  MovesAreSigned'
<1>1. \A n \in DOMAIN journal :
        journal[n].kind = "action" => IsSigned(journal, journal[n], n)
  BY DEF MovesAreSigned, IsSigned, Request
<1>2. SUFFICES \A n \in DOMAIN journal' :
        journal'[n].kind = "action" => IsSigned(journal', journal'[n], n)
  BY DEF MovesAreSigned, IsSigned, Request
<1> SUFFICES ASSUME NEW n \in DOMAIN journal', NEW f, f = journal'[n],
                    f.kind = "action"
             PROVE  IsSigned(journal', f, n)
  OBVIOUS
<1>3. n \in 1..NextSeq /\ IsSigned(journal, f, n)
  BY <1>1, OneMore
<1> QED
  BY <1>3, StaysSigned

(* Decisions stay final when the one that is stored is the first, or those *)
(* before it were not heard of.                                            *)
LEMMA DecisionsStayFinal ==
  ASSUME WorkflowInv, DecisionsAreFinal, NEW e \in EventSet, Stored(e),
         unheard \subseteq unheard',
         e.kind \in Decision =>
           \A n \in DOMAIN journal :
             journal[n].kind \in Decision /\ journal[n].appr = e.appr
               => n \in unheard
  PROVE  DecisionsAreFinal'
<1> SUFFICES ASSUME NEW m \in DOMAIN journal', NEW n \in DOMAIN journal',
                    m < n, journal'[m].appr = journal'[n].appr,
                    journal'[m].kind \in Decision, journal'[n].kind \in Decision
             PROVE  m \in unheard'
  BY DEF DecisionsAreFinal, Decision
<1>1. m \in DOMAIN journal /\ journal'[m] = journal[m]
  BY OneMore
<1>2. CASE n \in DOMAIN journal
  BY <1>1, <1>2, OneMore DEF DecisionsAreFinal, Decision
<1>3. CASE n = NextSeq
  BY <1>1, <1>3, OneMore
<1> QED
  BY <1>2, <1>3, OneMore

-----------------------------------------------------------------------------
(* Nothing is stored and no approval changes.                              *)
LEMMA NothingStored ==
  ASSUME WorkflowInv, ApprovalInv, UNCHANGED <<journal, replay, live.appr>>,
         unheard \subseteq unheard', op'.at # "signed" \/ UNCHANGED op
  PROVE  ApprovalInv'
<1>1. OneRequest' /\ Closed' /\ DeclaredIn(live)' /\ DeclaredIn(replay)'
  BY DEF ApprovalInv, OneRequest, Closed, DeclaredIn
<1>2. GrantIsLast'
  BY DEF ApprovalInv, GrantIsLast
<1>3. DecisionsAreFinal'
  BY DEF ApprovalInv, DecisionsAreFinal
<1>4. MovesAreSigned'
  <2>1. \A n \in DOMAIN journal :
          journal[n].kind = "action" => IsSigned(journal, journal[n], n)
    BY DEF ApprovalInv, MovesAreSigned, IsSigned, Request
  <2>2. \A n \in DOMAIN journal' :
          journal'[n].kind = "action" => IsSigned(journal', journal'[n], n)
    BY <2>1
  <2> QED
    BY <2>2 DEF MovesAreSigned, IsSigned, Request
<1> QED
  BY <1>1, <1>2, <1>3, <1>4 DEF ApprovalInv

(* An event is stored that is neither a request nor a decision.            *)
LEMMA OtherStored ==
  ASSUME WorkflowInv, ApprovalInv, NEW e \in EventSet, Stored(e),
         e.kind \notin {"requested", "granted", "rejected"},
         e.kind = "action" => IsSigned(journal, e, NextSeq),
         UNCHANGED live.appr, unheard \subseteq unheard', op'.at # "signed"
  PROVE  ApprovalInv'
<1>1. replay'.appr = replay.appr
  <2>1. NextSeq \in Nat /\ replay \in Projection
    BY OneMore
  <2>2. replay' = ApplyEvent(replay, NextSeq, e)
    BY OneMore
  <2> QED
    BY <2>1, <2>2, OtherLeavesApprovals
<1>2. OneRequest'
  BY <1>1, OneMore DEF ApprovalInv, OneRequest
<1>3. Closed'
  BY <1>1, OneMore DEF ApprovalInv, Closed, Decision
<1>4. DeclaredIn(live)' /\ DeclaredIn(replay)'
  BY <1>1 DEF ApprovalInv, DeclaredIn
<1>5. GrantIsLast'
  BY DEF GrantIsLast
<1>6. DecisionsAreFinal'
  BY DecisionsStayFinal DEF ApprovalInv, Decision
<1>7. MovesAreSigned'
  BY MovesStaySigned DEF ApprovalInv
<1> QED
  BY <1>2, <1>3, <1>4, <1>5, <1>6, <1>7 DEF ApprovalInv

(* A request under an id that no event and no approval has had.            *)
LEMMA RequestMade ==
  ASSUME WorkflowInv, ApprovalInv, NEW a \in Unused, NEW e \in EventSet,
         e.kind = "requested", e.appr = a, IsDeclared(e.action, e.from, e.to),
         Stored(e) \/ UNCHANGED <<journal, replay>>,
         \/ UNCHANGED live.appr
         \/ live'.appr = [live.appr EXCEPT ![a] =
                            Approval(e.rec, e.action, e.from, e.to, "pending")],
         unheard \subseteq unheard', op = Idle, UNCHANGED op
  PROVE  ApprovalInv'
<1> DEFINE p == Approval(e.rec, e.action, e.from, e.to, "pending")
<1>1. /\ a \in ApprovalId /\ live.appr[a] = NoApproval
      /\ \A n \in DOMAIN journal : journal[n].appr # a
  BY DEF Unused
<1>2. /\ p.rec = e.rec /\ p.action = e.action /\ p.from = e.from
      /\ p.to = e.to
  BY DEF Approval
<1>3. live \in Projection /\ replay \in Projection
  BY DEF WorkflowInv, LiveInv, JournalInv
<1> HIDE DEF p
<1>4. /\ \A b \in ApprovalId \ {a} : live'.appr[b] = live.appr[b]
      /\ live'.appr[a] \in {NoApproval, p}
  BY <1>1, <1>3 DEF Projection, p
<1>5. CASE UNCHANGED <<journal, replay>>
  <2>1. OneRequest' /\ Closed'
    <3>1. \A n \in DOMAIN journal :
            journal[n].kind \in Decision \cup {"requested"} =>
              journal[n].appr \in ApprovalId \ {a}
      BY <1>1 DEF WorkflowInv, JournalInv, EventSet, Decision
    <3>2. OneRequest'
      BY <1>4, <1>5, <3>1 DEF ApprovalInv, OneRequest
    <3>3. Closed'
      BY <1>4, <1>5, <3>1 DEF ApprovalInv, Closed
    <3> QED
      BY <3>2, <3>3
  <2>2. DeclaredIn(live)' /\ DeclaredIn(replay)'
    BY <1>2, <1>4, <1>5 DEF ApprovalInv, DeclaredIn
  <2>3. GrantIsLast' /\ DecisionsAreFinal' /\ MovesAreSigned'
    <3>1. GrantIsLast'
      BY DEF GrantIsLast, Idle
    <3>2. DecisionsAreFinal'
      BY <1>5 DEF ApprovalInv, DecisionsAreFinal
    <3>3. MovesAreSigned'
      <4>1. \A n \in DOMAIN journal :
              journal[n].kind = "action" => IsSigned(journal, journal[n], n)
        BY DEF ApprovalInv, MovesAreSigned, IsSigned, Request
      <4>2. \A n \in DOMAIN journal' :
              journal'[n].kind = "action" => IsSigned(journal', journal'[n], n)
        BY <1>5, <4>1
      <4> QED
        BY <4>2 DEF MovesAreSigned, IsSigned, Request
    <3> QED
      BY <3>1, <3>2, <3>3
  <2> QED
    BY <2>1, <2>2, <2>3 DEF ApprovalInv
<1>6. CASE Stored(e)
  <2>1. NextSeq \in Nat /\ replay' = ApplyEvent(replay, NextSeq, e)
    BY <1>6, OneMore
  <2>2. \A b \in ApprovalId : replay'.appr[b] =
          IF b = a THEN p ELSE replay.appr[b]
    BY <1>3, <2>1, RequestOpensOne DEF p
  <2>3. \A n \in DOMAIN journal :
          journal[n].kind \in Decision \cup {"requested"} =>
            journal[n].appr \in ApprovalId \ {a}
    BY <1>1 DEF WorkflowInv, JournalInv, EventSet, Decision
  <2>4. OneRequest'
    BY <1>1, <1>2, <1>4, <1>6, <2>2, <2>3, OneMore
       DEF ApprovalInv, OneRequest, AsksFor
  <2>5. Closed'
    BY <1>1, <1>4, <1>6, <2>2, <2>3, OneMore
       DEF ApprovalInv, Closed, Decision
  <2>6. DeclaredIn(live)' /\ DeclaredIn(replay)'
    BY <1>2, <1>4, <2>2 DEF ApprovalInv, DeclaredIn
  <2>7. GrantIsLast'
    BY DEF GrantIsLast, Idle
  <2>8. DecisionsAreFinal'
    BY <1>6, DecisionsStayFinal DEF ApprovalInv, Decision
  <2>9. MovesAreSigned'
    BY <1>6, MovesStaySigned DEF ApprovalInv
  <2> QED
    BY <2>4, <2>5, <2>6, <2>7, <2>8, <2>9 DEF ApprovalInv
<1> QED
  BY <1>5, <1>6

(* A decision is stored; memory takes it in, or nobody heard of it.        *)
LEMMA DecisionMade ==
  ASSUME WorkflowInv, ApprovalInv, NEW a \in ApprovalId,
         live.appr[a].status = "pending",
         NEW e \in EventSet, e.kind \in Decision, e.appr = a, Stored(e),
         unheard \subseteq unheard',
         \/ /\ live' = [live EXCEPT !.appr[a].status = e.kind]
            /\ op' = IF e.kind = "granted" THEN Signed(a) ELSE Idle
         \/ UNCHANGED live /\ NextSeq \in unheard' /\ op' = Idle
  PROVE  ApprovalInv'
<1>1. /\ live \in Projection /\ replay \in Projection
      /\ live.appr[a] # NoApproval
  BY DEF WorkflowInv, LiveInv, JournalInv, NoApproval, Approval
<1>2. \/ /\ Closes(live.appr[a], live'.appr[a])
         /\ \A b \in ApprovalId \ {a} : live'.appr[b] = live.appr[b]
      \/ UNCHANGED live /\ NextSeq \in unheard'
  BY <1>1, StatusCloses
<1>3. /\ Closes(replay.appr[a], replay'.appr[a])
      /\ \A b \in ApprovalId \ {a} : replay'.appr[b] = replay.appr[b]
  <2>1. NextSeq \in Nat /\ replay' = ApplyEvent(replay, NextSeq, e)
    BY OneMore
  <2> QED
    BY <1>1, <2>1, DecisionCloses
<1>4. \A n \in DOMAIN journal :
        journal[n].kind \in Decision \cup {"requested"} =>
          journal[n].appr \in ApprovalId
  BY DEF WorkflowInv, JournalInv, EventSet, Decision
<1>5. OneRequest'
  <2>1. \A f : \A b \in ApprovalId :
          /\ AsksFor(replay.appr[b], f) => AsksFor(replay'.appr[b], f)
          /\ live'.appr[b] # NoApproval => live.appr[b] # NoApproval
          /\ AsksFor(live.appr[b], f) => AsksFor(live'.appr[b], f)
    BY <1>2, <1>3 DEF AsksFor, Closes
  <2> QED
    BY <1>4, <2>1, OneMore DEF ApprovalInv, OneRequest, Decision
<1>6. Closed'
  <2>1. \A b \in ApprovalId :
          /\ replay'.appr[b].status = "pending" =>
               b # a /\ replay.appr[b].status = "pending"
          /\ live'.appr[b].status = "pending" =>
               /\ live.appr[b].status = "pending"
               /\ b = a => NextSeq \in unheard'
    BY <1>2, <1>3 DEF Closes
  <2> QED
    BY <1>4, <2>1, OneMore DEF ApprovalInv, Closed
<1>7. DeclaredIn(live)' /\ DeclaredIn(replay)'
  BY <1>2, <1>3 DEF ApprovalInv, DeclaredIn, Closes
<1>8. GrantIsLast'
  <2>1. op'.at = "signed" => e.kind = "granted" /\ op'.appr = a
    BY CallTypes DEF Signed, Idle
  <2> QED
    BY <2>1, OneMore DEF GrantIsLast
<1>9. DecisionsAreFinal'
  BY DecisionsStayFinal DEF ApprovalInv, Closed
<1>10. MovesAreSigned'
  BY MovesStaySigned DEF ApprovalInv, Decision
<1> QED
  BY <1>5, <1>6, <1>7, <1>8, <1>9, <1>10 DEF ApprovalInv

(* A restart offers what the journal folds to, and ends the call.          *)
LEMMA RestartKeepsApprovals ==
  ASSUME WorkflowInv, ApprovalInv, Restart
  PROVE  ApprovalInv'
<1>1. UNCHANGED <<journal, replay, unheard>> /\ live' = replay /\ op' = Idle
  BY DEF Restart
<1>2. OneRequest' /\ Closed' /\ DeclaredIn(live)' /\ DeclaredIn(replay)'
  BY <1>1 DEF ApprovalInv, OneRequest, Closed, DeclaredIn
<1>3. GrantIsLast'
  BY <1>1 DEF GrantIsLast, Idle
<1>4. DecisionsAreFinal'
  BY <1>1 DEF ApprovalInv, DecisionsAreFinal
<1>5. MovesAreSigned'
  <2>1. \A n \in DOMAIN journal :
          journal[n].kind = "action" => IsSigned(journal, journal[n], n)
    BY DEF ApprovalInv, MovesAreSigned, IsSigned, Request
  <2>2. \A n \in DOMAIN journal' :
          journal'[n].kind = "action" => IsSigned(journal', journal'[n], n)
    BY <1>1, <2>1
  <2> QED
    BY <2>2 DEF MovesAreSigned, IsSigned, Request
<1> QED
  BY <1>2, <1>3, <1>4, <1>5 DEF ApprovalInv

-----------------------------------------------------------------------------
(* The handlers, by what each appends.                                     *)
LEMMA EventKept ==
  ASSUME WorkflowInv, ApprovalInv, NEW e \in EventSet,
         e.kind \notin {"requested", "granted", "rejected"},
         e.kind = "action" => IsSigned(journal, e, NextSeq),
         \/ Stored(e) /\ unheard \subseteq unheard'
         \/ UNCHANGED <<journal, replay, unheard>>
         \/ Errs(e),
         UNCHANGED live.appr, op'.at # "signed"
  PROVE  ApprovalInv'
<1>1. /\ unheard \subseteq unheard'
      /\ Stored(e) \/ UNCHANGED <<journal, replay>>
  BY DEF Errs
<1> QED
  BY <1>1, OtherStored, NothingStored

LEMMA MoveKept ==
  ASSUME WorkflowInv, ApprovalInv, NEW e \in EventSet, e.kind = "action",
         Exists(e.rec), IsSigned(journal, e, NextSeq),
         Move(e) \/ (Errs(e) /\ UNCHANGED live), op'.at # "signed"
  PROVE  ApprovalInv'
<1>1. CASE Move(e)
  <2>1. UNCHANGED live.appr
    BY <1>1, MoveStep
  <2>2. \/ Stored(e) /\ unheard \subseteq unheard'
        \/ UNCHANGED <<journal, replay, unheard>>
    BY <1>1 DEF Move, Prior
  <2> QED
    BY <2>1, <2>2, EventKept
<1>2. CASE Errs(e) /\ UNCHANGED live
  BY <1>2, EventKept
<1> QED
  BY <1>1, <1>2

LEMMA CreateKept ==
  ASSUME WorkflowInv, ApprovalInv, NEW r \in Rec, NEW d \in Data,
         NEW key \in ClientKey, Create(r, d, key)
  PROVE  ApprovalInv'
<1> DEFINE e == Created(r, d, InitialState, key)
<1>1. e \in EventSet /\ e.kind = "created" /\ e.key = key
  BY WorkflowAssumption, EventTypes DEF Created, Event
<1> HIDE DEF e
<1>2. UNCHANGED live.appr
  <2>1. \/ UNCHANGED live
        \/ \E n : Enter(r, d, InitialState, n)
    BY DEF Create
  <2> QED
    BY <2>1 DEF Enter, WorkflowInv, LiveInv, Projection
<1>3. op'.at # "signed"
  BY CallTypes DEF Create, Begins, Settle, Idle
<1>4. \/ Stored(e) /\ unheard \subseteq unheard'
      \/ UNCHANGED <<journal, replay, unheard>>
      \/ Errs(e)
  BY DEF Create, Prior, e
<1> QED
  BY <1>1, <1>2, <1>3, <1>4, EventKept

LEMMA ImportKept ==
  ASSUME WorkflowInv, ApprovalInv, NEW r \in Rec, NEW d \in Data,
         NEW s \in State, ImportRecord(r, d, s)
  PROVE  ApprovalInv'
<1> DEFINE e == Imported(r, d, s)
<1>1. e \in EventSet /\ e.kind = "created"
  BY EventTypes DEF Imported, Event
<1> HIDE DEF e
<1>2. UNCHANGED live.appr
  BY DEF ImportRecord, Enter, WorkflowInv, LiveInv, Projection
<1>3. op'.at # "signed"
  BY DEF ImportRecord, Begins, Idle
<1>4. \/ Stored(e) /\ unheard \subseteq unheard'
      \/ Errs(e)
  BY DEF ImportRecord, e
<1> QED
  BY <1>1, <1>2, <1>3, <1>4, EventKept

LEMMA UpdateKept ==
  ASSUME WorkflowInv, ApprovalInv, NEW r \in Rec, NEW d \in Data,
         NEW key \in ClientKey, Update(r, d, key)
  PROVE  ApprovalInv'
<1> DEFINE e == Updated(r, d, key)
<1>1. e \in EventSet /\ e.kind = "updated" /\ e.key = key
  BY EventTypes DEF Updated, Event
<1> HIDE DEF e
<1>2. UNCHANGED live.appr
  BY DEF Update, WorkflowInv, LiveInv, Projection
<1>3. op'.at # "signed"
  BY DEF Update, Begins, Idle, Settle
<1>4. \/ Stored(e) /\ unheard \subseteq unheard'
      \/ UNCHANGED <<journal, replay, unheard>>
      \/ Errs(e)
  BY DEF Update, Prior, e
<1> QED
  BY <1>1, <1>2, <1>3, <1>4, EventKept

LEMMA ActKept ==
  ASSUME WorkflowInv, ApprovalInv, NEW r \in Rec, NEW action \in Action,
         NEW key \in ClientKey, Act(r, action, key)
  PROVE  ApprovalInv'
<1>1. /\ op = Idle /\ Exists(r) /\ live \in Projection
      /\ live.state[r] \in State
  BY DEF Act, Begins, WorkflowInv, LiveInv, Exists, Projection
<1>2. PICK t \in FindTransition(action, live.state[r]) :
        \/ /\ ~t.approval
           /\ LET e == Moved(r, action, live.state[r], t.to, None, key) IN
              \/ Move(e) /\ op' = Settle(r, 0, "act")
              \/ Errs(e) /\ UNCHANGED <<live, op>>
        \/ /\ Unused # {}
           /\ LET a == CHOOSE a \in Unused : TRUE
                  e == Requested(r, action, live.state[r], t.to, a, key)
              IN \/ /\ \/ Stored(e) /\ UNCHANGED skew
                       \/ /\ \E n \in ByIdemKey(key) : Prior(e, n)
                          /\ skew' = TRUE
                    /\ live' = [live EXCEPT !.appr[a] =
                         Approval(r, action, live.state[r], t.to, "pending")]
                    /\ UNCHANGED <<unheard, rough>>
                 \/ Errs(e) /\ UNCHANGED live
           /\ UNCHANGED op
  BY DEF Act
<1>3. /\ t.action = action /\ t.to \in State
      /\ IsDeclared(action, live.state[r], t.to)
      /\ \A u \in FindTransition(action, live.state[r]) : u = t
  BY TransitionType, FindsOne
<1>4. CASE /\ ~t.approval
           /\ LET e == Moved(r, action, live.state[r], t.to, None, key) IN
              \/ Move(e) /\ op' = Settle(r, 0, "act")
              \/ Errs(e) /\ UNCHANGED <<live, op>>
  <2> DEFINE e == Moved(r, action, live.state[r], t.to, None, key)
  <2>1. /\ e \in EventSet /\ e.kind = "action" /\ e.rec = r
        /\ e.appr = None /\ e.action = action /\ e.from = live.state[r]
        /\ e.to = t.to
    BY <1>1, <1>3, EventTypes DEF Moved, Event
  <2>2. /\ Move(e) \/ (Errs(e) /\ UNCHANGED live)
        /\ op'.at # "signed"
    BY <1>1, <1>4 DEF Settle, Idle
  <2> HIDE DEF e
  <2>3. IsSigned(journal, e, NextSeq)
    BY <1>3, <1>4, <2>1 DEF IsSigned
  <2> QED
    BY <1>1, <2>1, <2>2, <2>3, MoveKept
<1>5. ASSUME NEW a \in Unused,
             LET e == Requested(r, action, live.state[r], t.to, a, key)
             IN \/ /\ \/ Stored(e) /\ UNCHANGED skew
                      \/ /\ \E n \in ByIdemKey(key) : Prior(e, n)
                         /\ skew' = TRUE
                   /\ live' = [live EXCEPT !.appr[a] =
                        Approval(r, action, live.state[r], t.to, "pending")]
                   /\ UNCHANGED <<unheard, rough>>
                \/ Errs(e) /\ UNCHANGED live,
             UNCHANGED op
      PROVE  ApprovalInv'
  <2> DEFINE e == Requested(r, action, live.state[r], t.to, a, key)
             p == Approval(r, action, live.state[r], t.to, "pending")
  <2>1. a \in ApprovalId
    BY <1>5 DEF Unused
  <2>2. /\ e \in EventSet /\ e.kind = "requested" /\ e.appr = a
        /\ e.action = action /\ e.from = live.state[r] /\ e.to = t.to
        /\ p = Approval(e.rec, e.action, e.from, e.to, "pending")
    BY <1>1, <1>3, <2>1, EventTypes DEF Requested, Event
  <2>3. \/ /\ Stored(e) \/ UNCHANGED <<journal, replay>>
           /\ live' = [live EXCEPT !.appr[a] = p]
           /\ unheard' = unheard
        \/ Errs(e) /\ UNCHANGED live
    BY <1>5 DEF Prior
  <2> HIDE DEF e, p
  <2>4. /\ Stored(e) \/ UNCHANGED <<journal, replay>>
        /\ \/ UNCHANGED live.appr
           \/ live'.appr = [live.appr EXCEPT ![a] = p]
        /\ unheard \subseteq unheard'
    BY <1>1, <2>3 DEF Errs, Projection
  <2> QED
    BY <1>1, <1>3, <1>5, <2>2, <2>4, RequestMade
<1>6. CASE Unused # {}
  BY <1>2, <1>4, <1>5, <1>6
<1> QED
  BY <1>2, <1>4, <1>6

LEMMA DecideKept ==
  ASSUME WorkflowInv, ApprovalInv, NEW a \in ApprovalId, NEW kind \in Decision,
         Decide(a, kind)
  PROVE  ApprovalInv'
<1> DEFINE e == Decided(kind, a)
<1>1. e \in EventSet /\ e.kind = kind /\ e.appr = a
  BY EventTypes DEF Decided, Event, Decision
<1>2. /\ op = Idle /\ live.appr[a].status = "pending"
      /\ \/ /\ Stored(e)
            /\ live' = [live EXCEPT !.appr[a].status = kind]
            /\ op' = IF kind = "granted" THEN Signed(a) ELSE Idle
            /\ UNCHANGED aux
         \/ Errs(e) /\ UNCHANGED <<live, op>>
  BY DEF Decide, Begins
<1> HIDE DEF e
<1>3. CASE /\ Stored(e)
           /\ live' = [live EXCEPT !.appr[a].status = kind]
           /\ op' = IF kind = "granted" THEN Signed(a) ELSE Idle
           /\ UNCHANGED aux
  BY <1>1, <1>2, <1>3, DecisionMade DEF aux
<1>4. CASE Errs(e) /\ UNCHANGED <<live, op>>
  <2>1. CASE UNCHANGED <<journal, replay, unheard>>
    BY <1>4, <2>1, NothingStored
  <2>2. CASE Stored(e) /\ unheard' = unheard \cup {NextSeq}
    BY <1>1, <1>2, <1>4, <2>2, DecisionMade
  <2> QED
    BY <1>4, <2>1, <2>2 DEF Errs
<1> QED
  BY <1>2, <1>3, <1>4

LEMMA MoveSignedKept ==
  ASSUME WorkflowInv, ApprovalInv, MoveSigned
  PROVE  ApprovalInv'
<1> DEFINE p == live.appr[op.appr]
           e == Moved(p.rec, p.action, p.from, p.to, op.appr, NoKey)
<1>1. op.at = "signed" /\ op.appr \in ApprovalId /\ p # NoApproval
  BY DEF MoveSigned, WorkflowInv, CallInv, Continuation, Idle
<1>2. /\ p.rec \in Rec /\ p.action \in Action
      /\ p.from \in State /\ p.to \in State
  BY <1>1 DEF WorkflowInv, LiveInv, Projection
<1>3. /\ e \in EventSet /\ e.kind = "action" /\ e.rec = p.rec
      /\ e.appr = op.appr /\ e.action = p.action /\ e.data = None
      /\ e.from = p.from /\ e.to = p.to
  BY <1>1, <1>2, KeyType, EventTypes DEF Moved, Event
<1>4. \/ op' = Idle /\ UNCHANGED <<journal, live, replay, unheard>>
      \/ /\ live.state[p.rec] = p.from /\ op'.at # "signed"
         /\ Move(e) \/ (Errs(e) /\ UNCHANGED live)
  BY DEF MoveSigned, aux, Settle, Idle
<1> HIDE DEF p, e
<1>5. IsSigned(journal, e, NextSeq)
  <2> DEFINE g == Len(journal)
  <2>1. /\ g \in DOMAIN journal /\ journal[g].kind = "granted"
        /\ journal[g].appr = e.appr /\ e.appr # None
        /\ g \in Nat /\ NextSeq = g + 1 /\ DOMAIN journal = 1..g
        /\ journal \in Seq(EventSet)
    BY <1>1, <1>3, WorkflowAssumption
       DEF ApprovalInv, GrantIsLast, WorkflowInv, JournalInv, NextSeq
  <2> HIDE DEF g
  <2>2. ASSUME NEW m \in 1..(g - 1), journal[m].kind = "requested",
               journal[m].appr = e.appr
        PROVE  journal[m] = Request(e, journal[m].key)
    <3>1. m \in DOMAIN journal /\ journal[m] \in EventSet
      BY <2>1
    <3>2. AsksFor(p, journal[m])
      BY <1>1, <1>3, <2>2, <3>1 DEF ApprovalInv, OneRequest, p
    <3> DEFINE f == journal[m]
    <3>3. /\ f \in [kind: {"requested"}, rec: Rec, data: {None}, action: Action,
                    from: State, to: State, appr: ApprovalId, key: ClientKey]
      BY <2>2, <3>1 DEF EventSet
    <3>4. e \in [kind: {"action"}, rec: Rec, data: {None}, action: Action,
                 from: State, to: State, appr: ApprovalId \cup {None},
                 key: ClientKey]
      BY <1>3 DEF EventSet
    <3>5. /\ f.rec = e.rec /\ f.action = e.action /\ f.from = e.from
          /\ f.to = e.to /\ f.appr = e.appr
      BY <1>3, <2>2, <3>2 DEF AsksFor
    <3> HIDE DEF f
    <3>6. f = Request(e, f.key)
      BY <3>3, <3>4, <3>5 DEF Request
    <3> QED
      BY <3>6 DEF f
  <2>3. \A m \in (g + 1)..(NextSeq - 1) : journal[m].appr # e.appr
    BY <2>1
  <2>4. g \in 1..(NextSeq - 1)
    BY <2>1
  <2> QED
    BY <2>1, <2>2, <2>3, <2>4 DEF IsSigned
<1>6. CASE op' = Idle /\ UNCHANGED <<journal, live, replay, unheard>>
  BY <1>6, NothingStored DEF Idle
<1>7. CASE /\ live.state[p.rec] = p.from /\ op'.at # "signed"
           /\ Move(e) \/ (Errs(e) /\ UNCHANGED live)
  <2>1. Exists(e.rec)
    BY <1>2, <1>3, <1>7, WorkflowAssumption DEF Exists
  <2> QED
    BY <1>3, <1>5, <1>7, <2>1, MoveKept
<1> QED
  BY <1>4, <1>6, <1>7

LEMMA HopKept ==
  ASSUME WorkflowInv, ApprovalInv, Hop
  PROVE  ApprovalInv'
<1>1. /\ op.at = "settle" /\ op \in Continuation /\ op.rec \in Rec
      /\ Exists(op.rec) /\ live.state[op.rec] \in State
  BY DEF Hop, WorkflowInv, CallInv, Continuation, Idle, LiveInv, Projection,
         Exists
<1>2. PICK t \in NextAuto(op.rec) :
        LET e == Moved(op.rec, t.action, live.state[op.rec], t.to, None, NoKey)
        IN \/ Move(e)
           \/ Errs(e) /\ UNCHANGED live
  BY DEF Hop
<1> DEFINE e == Moved(op.rec, t.action, live.state[op.rec], t.to, None, NoKey)
<1>3. /\ e \in EventSet /\ e.kind = "action" /\ e.rec = op.rec
      /\ e.appr = None /\ e.action = t.action
      /\ e.from = live.state[op.rec] /\ e.to = t.to
  BY <1>1, TransitionType, KeyType, EventTypes DEF Moved, Event
<1> HIDE DEF e
<1>4. IsSigned(journal, e, NextSeq)
  BY <1>3, AutoIsUnsigned DEF IsSigned
<1>5. op'.at # "signed"
  BY <1>1 DEF Hop, Continuation, Idle
<1> QED
  BY <1>1, <1>2, <1>3, <1>4, <1>5, MoveKept DEF e

LEMMA CreateTaskKept ==
  ASSUME WorkflowInv, ApprovalInv, CreateTask
  PROVE  ApprovalInv'
<1>1. /\ op \in [at: {"queue"}, rec: Rec, on: Trigger, next: Nat, clean: BOOLEAN]
      /\ live \in Projection
  BY DEF CreateTask, WorkflowInv, CallInv, Continuation, Idle, LiveInv
<1>2. PICK j \in DueAt(op.rec, op.on, op.next) :
        LET e == DueTask(op.rec, j) IN
        \/ /\ \/ Stored(e) /\ live' = [live EXCEPT !.tasks = @ \cup {NextSeq}]
              \/ \E n \in ByIdemKey(e.key) :
                   Prior(e, n) /\ live' = [live EXCEPT !.tasks = @ \cup {n}]
           /\ op' = [op EXCEPT !.next = j + 1]
           /\ UNCHANGED aux
        \/ /\ Errs(e)
           /\ op' = [op EXCEPT !.next = j + 1, !.clean = @ /\ e.key = NoKey]
           /\ UNCHANGED live
  BY DEF CreateTask
<1> DEFINE e == DueTask(op.rec, j)
<1>3. e \in EventSet /\ e.kind = "task"
  BY <1>1, DueTaskType DEF WorkflowInv
<1> HIDE DEF e
<1>4. op'.at # "signed"
  BY <1>1, <1>2
<1>5. UNCHANGED live.appr
  BY <1>1, <1>2 DEF Projection
<1>6. \/ Stored(e) /\ unheard \subseteq unheard'
      \/ UNCHANGED <<journal, replay, unheard>>
      \/ Errs(e)
  BY <1>2 DEF Prior, aux, e
<1> QED
  BY <1>3, <1>4, <1>5, <1>6, EventKept

LEMMA ApprovalStep ==
  ASSUME WorkflowInv, ApprovalInv, [Next]_vars
  PROVE  ApprovalInv'
<1>1. CASE UNCHANGED vars
  BY <1>1, NothingStored DEF vars
<1>2. CASE HopsDone \/ Return
  BY <1>2, NothingStored DEF HopsDone, Return, aux, Queue, Idle
<1>3. CASE Next
  BY <1>2, <1>3, KeyType, CreateKept, UpdateKept, ImportKept, ActKept,
     DecideKept, MoveSignedKept, HopKept, CreateTaskKept,
     RestartKeepsApprovals DEF Next, Step, Decision
<1> QED
  BY <1>1, <1>3

LEMMA ApprovalInit ==
  ASSUME Init
  PROVE  ApprovalInv
BY DEF Init, NoProjection, ApprovalInv, OneRequest, Closed, GrantIsLast, Idle,
       DeclaredIn, DecisionsAreFinal, MovesAreSigned

(* Approvals, decisions and signed moves hang together in every reachable  *)
(* state, after any crash, lost answer or retry (Act, Decide, replay).     *)
THEOREM ApprovalsAreSound == Spec => []ApprovalInv
<1>1. WorkflowInv /\ ApprovalInv /\ [Next]_vars => ApprovalInv'
  BY ApprovalStep
<1> QED
  BY <1>1, ApprovalInit, EngineIsSound, PTL DEF Spec

-----------------------------------------------------------------------------
(* A transition that is asked for and requires an approval happens only by *)
(* a grant of its own, for the move that was asked for; every other move   *)
(* is one that was found not to require it, or an auto transition          *)
(* (applyTransition, Act, Decide, runAutoTransitions).                     *)
THEOREM SignaturesHold == Spec => []MovesAreSigned
<1>1. ApprovalInv => MovesAreSigned
  BY DEF ApprovalInv
<1> QED
  BY <1>1, ApprovalsAreSound, PTL

(* An approval is decided once, across restarts, unless nobody heard of    *)
(* the first decision (Decide).                                            *)
THEOREM DecisionsStand == Spec => []DecisionsAreFinal
<1>1. ApprovalInv => DecisionsAreFinal
  BY DEF ApprovalInv
<1> QED
  BY <1>1, ApprovalsAreSound, PTL

-----------------------------------------------------------------------------
(* What OnlyDeclaredMoves says of one event.                               *)
DeclaredMove(e) ==
  /\ e.from = replay.state[e.rec]
  /\ \E i \in DOMAIN Transitions :
       /\ Transitions[i].action = e.action /\ Transitions[i].to = e.to
       /\ Leaves(Transitions[i], e.from)
       /\ e.appr # None \/ replay.data[e.rec] \in Transitions[i].when

NewMovesDeclared ==
  \A n \in DOMAIN journal' \ DOMAIN journal :
    journal'[n].kind = "action" /\ ~skew => DeclaredMove(journal'[n])

(* The event a step stores, if it stores one.                              *)
LEMMA NewEvent ==
  ASSUME WorkflowInv, NEW e \in EventSet,
         \/ Stored(e)
         \/ UNCHANGED <<journal, replay>>
         \/ Errs(e)
         \/ \E n : Prior(e, n),
         e.kind = "action" /\ ~skew => DeclaredMove(e)
  PROVE  NewMovesDeclared
<1>1. Stored(e) \/ UNCHANGED journal
  BY DEF Errs, Prior
<1>2. CASE Stored(e)
  BY <1>2, OneMore DEF NewMovesDeclared
<1>3. CASE UNCHANGED journal
  BY <1>3 DEF NewMovesDeclared
<1> QED
  BY <1>1, <1>2, <1>3

LEMMA ActDeclared ==
  ASSUME WorkflowInv, NEW r \in Rec, NEW action \in Action,
         NEW key \in ClientKey, Act(r, action, key)
  PROVE  NewMovesDeclared
<1>1. /\ Exists(r) /\ live \in Projection /\ live.state[r] \in State
      /\ ~skew => live = replay
  BY DEF Act, WorkflowInv, LiveInv, Exists, Projection, ReplayRestores
<1>2. PICK t \in FindTransition(action, live.state[r]) :
        /\ live.data[r] \in t.when
        /\ \/ LET e == Moved(r, action, live.state[r], t.to, None, key) IN
              \/ Move(e)
              \/ Errs(e)
           \/ /\ Unused # {}
              /\ LET a == CHOOSE a \in Unused : TRUE
                     e == Requested(r, action, live.state[r], t.to, a, key)
                 IN \/ Stored(e)
                    \/ \E n \in ByIdemKey(key) : Prior(e, n)
                    \/ Errs(e)
  BY DEF Act
<1>3. /\ t.action = action /\ t.to \in State
      /\ \E i \in DOMAIN Transitions : t = Transitions[i]
      /\ Leaves(t, live.state[r])
  <2>1. PICK i \in DOMAIN Transitions :
          /\ t = Transitions[i] /\ Transitions[i].action = action
          /\ Leaves(Transitions[i], live.state[r])
    BY DEF FindTransition
  <2>2. Transitions[i].to \in State
    BY <2>1, TransitionType
  <2> QED BY <2>1, <2>2
<1>4. CASE LET e == Moved(r, action, live.state[r], t.to, None, key) IN
           Move(e) \/ Errs(e)
  <2> DEFINE e == Moved(r, action, live.state[r], t.to, None, key)
  <2>1. /\ e \in EventSet /\ e.rec = r /\ e.action = action
        /\ e.from = live.state[r] /\ e.to = t.to
    <3>1. e \in EventSet
      BY <1>1, <1>3, EventTypes
    <3> QED BY <3>1 DEF Moved, Event
  <2>2. Stored(e) \/ (\E n : Prior(e, n)) \/ Errs(e)
    BY <1>4 DEF Move
  <2> HIDE DEF e
  <2>3. ~skew => DeclaredMove(e)
    BY <1>1, <1>2, <1>3, <2>1 DEF DeclaredMove
  <2> QED
    BY <2>1, <2>2, <2>3, NewEvent
<1>5. ASSUME NEW a \in Unused,
             LET e == Requested(r, action, live.state[r], t.to, a, key)
             IN \/ Stored(e)
                \/ \E n \in ByIdemKey(key) : Prior(e, n)
                \/ Errs(e)
      PROVE  NewMovesDeclared
  <2> DEFINE e == Requested(r, action, live.state[r], t.to, a, key)
  <2>1. e \in EventSet /\ e.kind = "requested"
    BY <1>1, <1>3, EventTypes DEF Requested, Event, Unused
  <2>2. Stored(e) \/ (\E n : Prior(e, n)) \/ Errs(e)
    BY <1>5
  <2> HIDE DEF e
  <2> QED
    BY <2>1, <2>2, NewEvent
<1>6. CASE Unused # {}
  BY <1>2, <1>4, <1>5, <1>6
<1> QED
  BY <1>2, <1>4, <1>6

LEMMA MoveSignedDeclared ==
  ASSUME WorkflowInv, ApprovalInv, MoveSigned
  PROVE  NewMovesDeclared
<1> DEFINE p == live.appr[op.appr]
           e == Moved(p.rec, p.action, p.from, p.to, op.appr, NoKey)
<1>1. op.at = "signed" /\ op.appr \in ApprovalId /\ p # NoApproval
  BY DEF MoveSigned, WorkflowInv, CallInv, Continuation, Idle
<1>2. /\ p.rec \in Rec /\ p.action \in Action
      /\ p.from \in State /\ p.to \in State
      /\ IsDeclared(p.action, p.from, p.to)
  BY <1>1 DEF WorkflowInv, LiveInv, Projection, ApprovalInv, DeclaredIn
<1>3. /\ e \in EventSet /\ e.rec = p.rec
      /\ e.appr = op.appr /\ e.action = p.action
      /\ e.from = p.from /\ e.to = p.to
  BY <1>1, <1>2, KeyType, EventTypes DEF Moved, Event
<1>4. \/ UNCHANGED <<journal, replay>>
      \/ /\ live.state[p.rec] = p.from
         /\ Stored(e) \/ (\E n : Prior(e, n)) \/ Errs(e)
  BY DEF MoveSigned, Move
<1> HIDE DEF p, e
<1>5. CASE UNCHANGED <<journal, replay>>
  BY <1>5 DEF NewMovesDeclared
<1>6. CASE /\ live.state[p.rec] = p.from
           /\ Stored(e) \/ (\E n : Prior(e, n)) \/ Errs(e)
  <2>1. ~skew => DeclaredMove(e)
    BY <1>1, <1>2, <1>3, <1>6, WorkflowAssumption
       DEF DeclaredMove, IsDeclared, WorkflowInv, ReplayRestores
  <2> QED
    BY <1>3, <1>6, <2>1, NewEvent
<1> QED
  BY <1>4, <1>5, <1>6

LEMMA HopDeclared ==
  ASSUME WorkflowInv, Hop
  PROVE  NewMovesDeclared
<1>1. /\ op.at = "settle" /\ op \in Continuation /\ op.rec \in Rec
      /\ Exists(op.rec) /\ live.state[op.rec] \in State
      /\ ~skew => live = replay
  BY DEF Hop, WorkflowInv, CallInv, Continuation, Idle, LiveInv, Projection,
         Exists, ReplayRestores
<1>2. PICK t \in NextAuto(op.rec) :
        LET e == Moved(op.rec, t.action, live.state[op.rec], t.to, None, NoKey)
        IN Move(e) \/ Errs(e)
  BY DEF Hop
<1> DEFINE e == Moved(op.rec, t.action, live.state[op.rec], t.to, None, NoKey)
<1>3. /\ e \in EventSet /\ e.rec = op.rec /\ e.action = t.action
      /\ e.from = live.state[op.rec] /\ e.to = t.to
  BY <1>1, TransitionType, KeyType, EventTypes DEF Moved, Event
<1>4. Stored(e) \/ (\E n : Prior(e, n)) \/ Errs(e)
  BY <1>2 DEF Move
<1> HIDE DEF e
<1>5. /\ \E i \in DOMAIN Transitions : t = Transitions[i]
      /\ Leaves(t, live.state[op.rec]) /\ live.data[op.rec] \in t.when
  BY AutoIsUnsigned DEF Fires
<1>6. ~skew => DeclaredMove(e)
  BY <1>1, <1>3, <1>5 DEF DeclaredMove
<1> QED
  BY <1>3, <1>4, <1>6, NewEvent

LEMMA OthersMoveNothing ==
  ASSUME WorkflowInv
  PROVE  /\ \A r \in Rec, d \in Data, key \in ClientKey :
              Create(r, d, key) \/ Update(r, d, key) => NewMovesDeclared
         /\ \A r \in Rec, d \in Data, s \in State :
              ImportRecord(r, d, s) => NewMovesDeclared
         /\ \A a \in ApprovalId, kind \in Decision :
              Decide(a, kind) => NewMovesDeclared
         /\ CreateTask => NewMovesDeclared
         /\ Restart \/ Return \/ HopsDone => NewMovesDeclared
<1>1. ASSUME NEW r \in Rec, NEW d \in Data, NEW key \in ClientKey,
             Create(r, d, key)
      PROVE  NewMovesDeclared
  <2> DEFINE e == Created(r, d, InitialState, key)
  <2>1. e \in EventSet /\ e.kind = "created"
    BY WorkflowAssumption, EventTypes DEF Created, Event
  <2>2. Stored(e) \/ (\E n : Prior(e, n)) \/ Errs(e)
    BY <1>1 DEF Create
  <2> HIDE DEF e
  <2> QED
    BY <2>1, <2>2, NewEvent
<1>2. ASSUME NEW r \in Rec, NEW d \in Data, NEW key \in ClientKey,
             Update(r, d, key)
      PROVE  NewMovesDeclared
  <2> DEFINE e == Updated(r, d, key)
  <2>1. e \in EventSet /\ e.kind = "updated"
    BY EventTypes DEF Updated, Event
  <2>2. Stored(e) \/ (\E n : Prior(e, n)) \/ Errs(e)
    BY <1>2 DEF Update
  <2> HIDE DEF e
  <2> QED
    BY <2>1, <2>2, NewEvent
<1>3. ASSUME NEW r \in Rec, NEW d \in Data, NEW s \in State,
             ImportRecord(r, d, s)
      PROVE  NewMovesDeclared
  <2> DEFINE e == Imported(r, d, s)
  <2>1. e \in EventSet /\ e.kind = "created"
    BY EventTypes DEF Imported, Event
  <2>2. Stored(e) \/ Errs(e)
    BY <1>3 DEF ImportRecord
  <2> HIDE DEF e
  <2> QED
    BY <2>1, <2>2, NewEvent
<1>4. ASSUME NEW a \in ApprovalId, NEW kind \in Decision, Decide(a, kind)
      PROVE  NewMovesDeclared
  <2> DEFINE e == Decided(kind, a)
  <2>1. e \in EventSet /\ e.kind # "action"
    BY EventTypes DEF Decided, Event, Decision
  <2>2. Stored(e) \/ Errs(e)
    BY <1>4 DEF Decide
  <2> HIDE DEF e
  <2> QED
    BY <2>1, <2>2, NewEvent
<1>5. ASSUME CreateTask
      PROVE  NewMovesDeclared
  <2>1. op.rec \in Rec /\ op.next \in Nat
    BY <1>5 DEF CreateTask, WorkflowInv, CallInv, Continuation, Idle
  <2>2. PICK j \in DueAt(op.rec, op.on, op.next) :
          LET e == DueTask(op.rec, j) IN
          Stored(e) \/ (\E n : Prior(e, n)) \/ Errs(e)
    BY <1>5 DEF CreateTask
  <2> DEFINE e == DueTask(op.rec, j)
  <2>3. e \in EventSet /\ e.kind = "task"
    BY <2>1, DueTaskType DEF WorkflowInv
  <2> HIDE DEF e
  <2> QED
    BY <2>2, <2>3, NewEvent DEF e
<1>6. Restart \/ Return \/ HopsDone => NewMovesDeclared
  BY DEF Restart, Return, HopsDone, NewMovesDeclared
<1> QED
  BY <1>1, <1>2, <1>3, <1>4, <1>5, <1>6

(* A record moves along its workflow only (findTransition,                 *)
(* runAutoTransitions, Decide).                                            *)
THEOREM MovesAreDeclared == Spec => OnlyDeclaredMoves
<1>1. ASSUME WorkflowInv, ApprovalInv, [Next]_vars
      PROVE  NewMovesDeclared
  <2>1. CASE UNCHANGED vars
    BY <2>1 DEF vars, NewMovesDeclared
  <2>2. CASE Next
    BY <1>1, <2>2, KeyType, ActDeclared, MoveSignedDeclared, HopDeclared,
       OthersMoveNothing DEF Next, Step, Decision
  <2> QED
    BY <1>1, <2>1, <2>2
<1>2. NewMovesDeclared =>
        \A n \in DOMAIN journal' \ DOMAIN journal :
          LET e == journal'[n] IN
          e.kind = "action" /\ ~skew =>
            /\ e.from = replay.state[e.rec]
            /\ \E i \in DOMAIN Transitions :
                 /\ Transitions[i].action = e.action /\ Transitions[i].to = e.to
                 /\ Leaves(Transitions[i], e.from)
                 /\ e.appr # None \/ replay.data[e.rec] \in Transitions[i].when
  BY DEF NewMovesDeclared, DeclaredMove
<1> QED
  BY <1>1, <1>2, EngineIsSound, ApprovalsAreSound, PTL
     DEF OnlyDeclaredMoves, Spec

-----------------------------------------------------------------------------
(* Of projection p, no auto transition of record r fires.                  *)
IsSettled(p, r) ==
  p.state[r] # None =>
    \A i \in DOMAIN Transitions :
      ~ /\ Transitions[i].auto /\ Leaves(Transitions[i], p.state[r])
        /\ Transitions[i].to # p.state[r]
        /\ p.data[r] \in Transitions[i].when

(* With journal j, projection p has a task about r for this action, from   *)
(* this stay in the state.                                                 *)
HasTask(j, p, r, action) ==
  \E n \in p.tasks : n > p.since[r] /\ j[n].rec = r /\ j[n].action = action

(* The transitions before number k have their tasks.                       *)
IsStaffed(j, p, r, k) ==
  \A i \in DOMAIN Transitions :
    (/\ i < k /\ p.state[r] # None
     /\ Transitions[i].assigned /\ ~Transitions[i].auto
     /\ Leaves(Transitions[i], p.state[r])) =>
      HasTask(j, p, r, Transitions[i].action)

All == Len(Transitions) + 1

IsDone(j, p, r) == IsSettled(p, r) /\ IsStaffed(j, p, r, All)

(* A task's key tells which record, action and stay it is for, and the     *)
(* stay began before the task.                                             *)
KeyTells(e, n) ==
  e.kind = "task" /\ e.key # NoKey =>
    \E s \in Nat : s < n /\ e.key = TaskKey(e.rec, e.action, s)

KeysTell == \A n \in DOMAIN journal : KeyTells(journal[n], n)

(* Nothing was entered later than the last event.                          *)
EnteredBy(p, n) == \A r \in Rec : p.since[r] <= n

RecordsDone ==
  \A r \in Rec \ rough : IsDone(journal, live, r) /\ IsDone(journal, replay, r)

(* The call that queues tasks has settled its record and has come to the   *)
(* transition it goes on with, unless it dropped an error.                 *)
CallOnTheWay ==
  op.at = "queue" =>
    (op.clean =>
       /\ IsSettled(live, op.rec)
       /\ IsStaffed(journal, live, op.rec, op.next))

SettledInv ==
  /\ KeysTell
  /\ EnteredBy(live, Len(journal)) /\ EnteredBy(replay, Len(journal))
  /\ RecordsDone
  /\ CallOnTheWay

-----------------------------------------------------------------------------
(* A set of numbers has a least one.                                       *)
LEMMA LeastNumber ==
  ASSUME NEW T \in SUBSET Nat, T # {}
  PROVE  \E x \in T : \A y \in T : x <= y
<1> DEFINE R == OpToRel(<, Nat)
<1>1. IsWellFoundedOn(R, Nat)
  BY NatLessThanWellFounded
<1>2. \A x, y \in Nat : y < x => <<y, x>> \in R
  BY DEF OpToRel
<1> HIDE DEF R
<1>3. PICK x \in T : \A y \in T : ~ (<<y, x>> \in R)
  BY <1>1, WFMin
<1>4. x \in Nat /\ \A y \in T : y \in Nat /\ ~(y < x)
  BY <1>2, <1>3
<1> QED
  BY <1>3, <1>4

(* The loop of runAutoTransitions stops only where nothing fires.          *)
LEMMA NothingFires ==
  ASSUME NEW r \in Rec, NextAuto(r) = {}
  PROVE  IsSettled(live, r)
<1> DEFINE T == {i \in DOMAIN Transitions : Fires(Transitions[i], r)}
<1>1. T \in SUBSET Nat /\ DOMAIN Transitions = 1..Len(Transitions)
  BY WorkflowAssumption
<1>2. ASSUME T # {} PROVE FALSE
  <2>1. PICK i \in T : \A j \in T : i <= j
    BY <1>1, <1>2, LeastNumber
  <2>2. \A j \in 1..(i - 1) : ~Fires(Transitions[j], r)
    <3> SUFFICES ASSUME NEW j \in 1..(i - 1), Fires(Transitions[j], r)
                 PROVE  FALSE
      OBVIOUS
    <3>1. i \in 1..Len(Transitions) /\ j \in DOMAIN Transitions
      BY <1>1
    <3>2. j \in T
      BY <3>1
    <3> QED
      BY <2>1, <3>1, <3>2
  <2>3. Transitions[i] \in NextAuto(r)
    BY <2>2 DEF NextAuto
  <2> QED
    BY <2>3
<1> QED
  BY <1>2 DEF IsSettled, Fires

(* The call returns only where no task is due.                             *)
LEMMA NothingDue ==
  ASSUME NEW r \in Rec, NEW on, NEW next \in Nat, DueAt(r, on, next) = {},
         IsStaffed(journal, live, r, next)
  PROVE  IsStaffed(journal, live, r, All)
<1> DEFINE last == Len(Transitions) + Len(Triggers)
           T == {j \in next..last : Due(r, on, j)}
<1>1. /\ DOMAIN Transitions = 1..Len(Transitions)
      /\ Len(Transitions) \in Nat /\ Len(Triggers) \in Nat
  BY WorkflowAssumption
<1>2. T \in SUBSET Nat
  BY <1>1
<1>3. ASSUME T # {} PROVE FALSE
  <2>1. PICK j \in T : \A k \in T : j <= k
    BY <1>2, <1>3, LeastNumber
  <2>2. \A k \in next..(j - 1) : ~Due(r, on, k)
    <3> SUFFICES ASSUME NEW k \in next..(j - 1), Due(r, on, k)
                 PROVE  FALSE
      OBVIOUS
    <3>1. k \in T
      BY <1>1
    <3> QED
      BY <1>1, <2>1, <3>1
  <2>3. j \in DueAt(r, on, next)
    BY <2>2 DEF DueAt
  <2> QED
    BY <2>3
<1>4. SUFFICES ASSUME NEW i \in DOMAIN Transitions, live.state[r] # None,
                      Transitions[i].assigned, ~Transitions[i].auto,
                      Leaves(Transitions[i], live.state[r])
               PROVE  HasTask(journal, live, r, Transitions[i].action)
  BY DEF IsStaffed
<1>5. Due(r, on, i)
  BY <1>4 DEF Due
<1>6. i < next
  BY <1>1, <1>3, <1>5
<1> QED
  BY <1>4, <1>6 DEF IsStaffed

-----------------------------------------------------------------------------
(* A journal that keeps its events, and a projection that keeps a record   *)
(* and its tasks, keep the record done.                                    *)
LEMMA DoneStays ==
  ASSUME NEW j, NEW k, NEW p, NEW q, NEW r,
         q.state[r] = p.state[r], q.data[r] = p.data[r],
         q.since[r] = p.since[r], p.tasks \subseteq q.tasks,
         \A n \in p.tasks : k[n] = j[n]
  PROVE  /\ IsSettled(p, r) => IsSettled(q, r)
         /\ \A m : IsStaffed(j, p, r, m) => IsStaffed(k, q, r, m)
         /\ IsDone(j, p, r) => IsDone(k, q, r)
<1>1. \A action : HasTask(j, p, r, action) => HasTask(k, q, r, action)
  BY DEF HasTask
<1>2. \A m : IsStaffed(j, p, r, m) => IsStaffed(k, q, r, m)
  BY <1>1 DEF IsStaffed
<1>3. IsSettled(p, r) => IsSettled(q, r)
  BY DEF IsSettled
<1> QED
  BY <1>2, <1>3 DEF IsDone

Same(p, q, r) ==
  q.state[r] = p.state[r] /\ q.data[r] = p.data[r] /\ q.since[r] = p.since[r]

Changing == {"created", "updated", "action"}

(* applyEvent changes the record its event is about, and no other.         *)
LEMMA ApplyIsLocal ==
  ASSUME NEW p \in Projection, NEW n \in Nat, NEW e \in EventSet
  PROVE  /\ \A r \in Rec : e.kind \notin Changing \/ r # e.rec =>
              Same(p, ApplyEvent(p, n, e), r)
         /\ p.tasks \subseteq ApplyEvent(p, n, e).tasks
         /\ \A r \in Rec : ApplyEvent(p, n, e).since[r] \in {p.since[r], n}
<1> USE DEF Same, Changing
<1>1. CASE e.kind = "created"
  BY <1>1 DEF ApplyEvent, Projection, EventSet
<1>2. CASE e.kind = "updated"
  BY <1>2 DEF ApplyEvent, Projection, EventSet
<1>3. CASE e.kind = "action"
  BY <1>3 DEF ApplyEvent, Projection, EventSet
<1>4. CASE e.kind = "requested"
  BY <1>4 DEF ApplyEvent, Projection
<1>5. CASE e.kind \in {"granted", "rejected"}
  BY <1>5 DEF ApplyEvent, Projection
<1>6. CASE e.kind = "task"
  BY <1>6 DEF ApplyEvent, Projection
<1> QED
  BY <1>1, <1>2, <1>3, <1>4, <1>5, <1>6 DEF EventSet

(* A step that stores event e, or nothing, and changes in memory only      *)
(* records that it makes rough: what is done elsewhere stays done.         *)
LEMMA StepKeeps ==
  ASSUME WorkflowInv, SettledInv, NEW e \in EventSet,
         \/ Stored(e)
         \/ UNCHANGED <<journal, replay>>,
         KeyTells(e, NextSeq),
         EnteredBy(live', Len(journal')),
         live.tasks \subseteq live'.tasks,
         \A r \in Rec \ rough' :
           /\ r \notin rough /\ Same(live, live', r)
           /\ Stored(e) /\ e.kind \in Changing => r # e.rec
  PROVE  /\ KeysTell'
         /\ EnteredBy(live', Len(journal')) /\ EnteredBy(replay', Len(journal'))
         /\ RecordsDone'
         /\ \A n \in live.tasks : journal'[n] = journal[n]
<1>1. /\ journal \in Seq(EventSet) /\ Len(journal) \in Nat
      /\ DOMAIN journal = 1..Len(journal) /\ replay \in Projection
      /\ live.tasks \subseteq DOMAIN journal
      /\ replay.tasks \subseteq DOMAIN journal
      /\ NextSeq = Len(journal) + 1 /\ NextSeq \in Nat
  BY DEF WorkflowInv, JournalInv, LiveInv, NextSeq
<1>2. CASE UNCHANGED <<journal, replay>>
  <2>1. KeysTell' /\ EnteredBy(replay', Len(journal'))
    BY <1>2 DEF SettledInv, KeysTell
  <2>2. RecordsDone'
    <3> SUFFICES ASSUME NEW r \in Rec \ rough'
                 PROVE  IsDone(journal', live', r) /\ IsDone(journal', replay', r)
      BY DEF RecordsDone
    <3>1. IsDone(journal, live, r) /\ IsDone(journal, replay, r)
      BY DEF SettledInv, RecordsDone
    <3>2. /\ live'.state[r] = live.state[r] /\ live'.data[r] = live.data[r]
          /\ live'.since[r] = live.since[r]
      BY DEF Same
    <3> QED
      BY <1>2, <3>1, <3>2, DoneStays
  <2> QED
    BY <1>2, <2>1, <2>2
<1>3. CASE Stored(e)
  <2>1. /\ Len(journal') = NextSeq /\ journal'[NextSeq] = e
        /\ DOMAIN journal' = DOMAIN journal \cup {NextSeq}
        /\ \A n \in DOMAIN journal : journal'[n] = journal[n]
        /\ replay' = ApplyEvent(replay, NextSeq, e)
    BY <1>1, <1>3 DEF Stored
  <2>2. KeysTell'
    BY <2>1 DEF SettledInv, KeysTell
  <2>3. /\ \A r \in Rec : e.kind \notin Changing \/ r # e.rec =>
             Same(replay, replay', r)
        /\ replay.tasks \subseteq replay'.tasks
        /\ \A r \in Rec : replay'.since[r] \in {replay.since[r], NextSeq}
    BY <1>1, <2>1, ApplyIsLocal
  <2>4. EnteredBy(replay', Len(journal'))
    <3>1. \A r \in Rec : replay.since[r] \in Nat
      BY <1>1 DEF Projection
    <3> QED
      BY <1>1, <2>1, <2>3, <3>1 DEF SettledInv, EnteredBy
  <2>5. RecordsDone'
    <3> SUFFICES ASSUME NEW r \in Rec \ rough'
                 PROVE  IsDone(journal', live', r) /\ IsDone(journal', replay', r)
      BY DEF RecordsDone
    <3>1. IsDone(journal, live, r) /\ IsDone(journal, replay, r)
      BY DEF SettledInv, RecordsDone
    <3>2. /\ live'.state[r] = live.state[r] /\ live'.data[r] = live.data[r]
          /\ live'.since[r] = live.since[r]
      BY DEF Same
    <3>3. /\ replay'.state[r] = replay.state[r]
          /\ replay'.data[r] = replay.data[r]
          /\ replay'.since[r] = replay.since[r]
      BY <1>3, <2>3 DEF Same
    <3>4. /\ \A n \in live.tasks : journal'[n] = journal[n]
          /\ \A n \in replay.tasks : journal'[n] = journal[n]
      BY <1>1, <2>1
    <3>5. IsDone(journal', live', r)
      BY <3>1, <3>2, <3>4, DoneStays
    <3>6. IsDone(journal', replay', r)
      BY <2>3, <3>1, <3>3, <3>4, DoneStays
    <3> QED
      BY <3>5, <3>6
  <2> QED
    BY <1>1, <2>1, <2>2, <2>4, <2>5
<1> QED
  BY <1>2, <1>3
Kept ==
  /\ KeysTell'
  /\ EnteredBy(live', Len(journal')) /\ EnteredBy(replay', Len(journal'))
  /\ RecordsDone'

(* An append that answers with an error makes its record rough if it was   *)
(* stored.                                                                 *)
LEMMA ErrsKeeps ==
  ASSUME WorkflowInv, SettledInv, NEW e \in EventSet, Errs(e), UNCHANGED live,
         KeyTells(e, NextSeq)
  PROVE  Kept /\ \A n \in live.tasks : journal'[n] = journal[n]
<1>1. /\ journal \in Seq(EventSet) /\ Len(journal) \in Nat
      /\ live \in Projection /\ NextSeq = Len(journal) + 1
  BY DEF WorkflowInv, JournalInv, LiveInv, NextSeq
<1>2. Stored(e) => Len(journal') = NextSeq
  BY <1>1 DEF Stored
<1>3. Stored(e) \/ UNCHANGED <<journal, replay>>
  BY DEF Errs
<1>4. EnteredBy(live', Len(journal'))
  <2>1. \A r \in Rec : live.since[r] \in Nat
    BY <1>1 DEF Projection
  <2> QED
    BY <1>1, <1>2, <1>3, <2>1 DEF SettledInv, EnteredBy
<1>5. \A r \in Rec \ rough' :
        /\ r \notin rough /\ Same(live, live', r)
        /\ Stored(e) /\ e.kind \in Changing => r # e.rec
  <2>1. CASE UNCHANGED <<journal, replay, skew, unheard, rough>>
    <3>1. ~Stored(e)
      BY <1>1, <1>2, <2>1
    <3> QED
      BY <2>1, <3>1 DEF Same
  <2>2. CASE rough' = rough \cup ({e.rec} \cap Rec)
    BY <2>2 DEF Same
  <2> QED
    BY <2>1, <2>2 DEF Errs
<1> QED
  BY <1>3, <1>4, <1>5, StepKeeps DEF Kept

(* A handler that changes its record, and makes it rough, before it        *)
(* settles it.                                                             *)
LEMMA ChangeKeeps ==
  ASSUME WorkflowInv, SettledInv, NEW e \in EventSet, e.kind \in Changing,
         Stored(e) \/ UNCHANGED <<journal, replay>>,
         live'.tasks = live.tasks,
         \A r \in Rec \ {e.rec} : Same(live, live', r),
         live'.since[e.rec] <= Len(journal'), Changes(e.rec)
  PROVE  Kept
<1>1. /\ journal \in Seq(EventSet) /\ Len(journal) \in Nat
      /\ live \in Projection /\ NextSeq = Len(journal) + 1
  BY DEF WorkflowInv, JournalInv, LiveInv, NextSeq
<1>2. Len(journal') \in Nat /\ Len(journal') >= Len(journal)
  BY <1>1 DEF Stored
<1>3. EnteredBy(live', Len(journal'))
  <2>1. \A r \in Rec : live.since[r] \in Nat
    BY <1>1 DEF Projection
  <2> QED
    BY <1>1, <1>2, <2>1 DEF SettledInv, EnteredBy, Same
<1>4. KeyTells(e, NextSeq)
  BY DEF KeyTells, Changing
<1>5. \A r \in Rec \ rough' :
        /\ r \notin rough /\ Same(live, live', r)
        /\ Stored(e) /\ e.kind \in Changing => r # e.rec
  BY DEF Changes
<1> QED
  BY <1>3, <1>4, <1>5, StepKeeps DEF Kept

LEMMA KeptOffQueue ==
  ASSUME Kept, op'.at # "queue"
  PROVE  SettledInv'
BY DEF Kept, SettledInv, CallOnTheWay

LEMMA MoveKeeps ==
  ASSUME WorkflowInv, SettledInv, NEW e \in EventSet, e.kind = "action",
         Move(e) \/ (Errs(e) /\ UNCHANGED live), op'.at # "queue"
  PROVE  SettledInv'
<1>1. KeyTells(e, NextSeq)
  BY DEF KeyTells
<1>2. CASE Errs(e) /\ UNCHANGED live
  BY <1>1, <1>2, ErrsKeeps, KeptOffQueue
<1>3. CASE Move(e)
  <2>1. /\ journal \in Seq(EventSet) /\ Len(journal) \in Nat
        /\ live \in Projection /\ NextSeq = Len(journal) + 1
        /\ e.rec \in Rec
    BY DEF WorkflowInv, JournalInv, LiveInv, NextSeq, EventSet
  <2>2. PICK n :
          /\ live' = [live EXCEPT !.state[e.rec] = e.to, !.since[e.rec] = n]
          /\ \/ Stored(e) /\ n = NextSeq
             \/ n \in ByIdemKey(e.key) /\ UNCHANGED <<journal, replay>>
    BY <1>3 DEF Move, Prior
  <2>3. n \in Nat /\ n <= Len(journal')
    BY <2>1, <2>2 DEF ByIdemKey, Stored
  <2>4. /\ live'.tasks = live.tasks /\ live'.since[e.rec] = n
        /\ \A r \in Rec \ {e.rec} : Same(live, live', r)
    BY <2>1, <2>2 DEF Projection, Same
  <2>5. Changes(e.rec)
    BY <1>3 DEF Move
  <2>6. Stored(e) \/ UNCHANGED <<journal, replay>>
    BY <2>2
  <2>7. Kept
    BY <2>3, <2>4, <2>5, <2>6, ChangeKeeps DEF Changing
  <2> QED
    BY <2>7, KeptOffQueue
<1> QED
  BY <1>2, <1>3

LEMMA EnterKeeps ==
  ASSUME WorkflowInv, SettledInv, NEW e \in EventSet, e.kind = "created",
         \/ \E n : /\ Enter(e.rec, e.data, e.to, n)
                   /\ \/ Stored(e) /\ n = NextSeq
                      \/ n \in DOMAIN journal /\ UNCHANGED <<journal, replay>>
                   /\ Changes(e.rec)
         \/ Errs(e) /\ UNCHANGED live,
         op'.at # "queue"
  PROVE  SettledInv'
<1>1. KeyTells(e, NextSeq)
  BY DEF KeyTells
<1>2. CASE Errs(e) /\ UNCHANGED live
  BY <1>1, <1>2, ErrsKeeps, KeptOffQueue
<1>3. CASE \E n : /\ Enter(e.rec, e.data, e.to, n)
                  /\ \/ Stored(e) /\ n = NextSeq
                     \/ n \in DOMAIN journal /\ UNCHANGED <<journal, replay>>
                  /\ Changes(e.rec)
  <2>1. /\ journal \in Seq(EventSet) /\ Len(journal) \in Nat
        /\ live \in Projection /\ NextSeq = Len(journal) + 1
        /\ e.rec \in Rec
    BY DEF WorkflowInv, JournalInv, LiveInv, NextSeq, EventSet
  <2>2. PICK n : /\ Enter(e.rec, e.data, e.to, n)
                 /\ \/ Stored(e) /\ n = NextSeq
                    \/ n \in DOMAIN journal /\ UNCHANGED <<journal, replay>>
                 /\ Changes(e.rec)
    BY <1>3
  <2>3. n \in Nat /\ n <= Len(journal')
    BY <2>1, <2>2 DEF Stored
  <2>4. /\ live'.tasks = live.tasks /\ live'.since[e.rec] = n
        /\ \A r \in Rec \ {e.rec} : Same(live, live', r)
    BY <2>1, <2>2 DEF Projection, Same, Enter
  <2>5. Kept
    BY <2>2, <2>3, <2>4, ChangeKeeps DEF Changing
  <2> QED
    BY <2>5, KeptOffQueue
<1> QED
  BY <1>2, <1>3

LEMMA CreateKeeps ==
  ASSUME WorkflowInv, SettledInv, NEW r \in Rec, NEW d \in Data,
         NEW key \in ClientKey, Create(r, d, key)
  PROVE  SettledInv'
<1> DEFINE e == Created(r, d, InitialState, key)
<1>1. /\ e \in EventSet /\ e.kind = "created" /\ e.key = key
      /\ e.rec = r /\ e.data = d /\ e.to = InitialState
  BY WorkflowAssumption, EventTypes DEF Created, Event
<1>2. \/ \E n : /\ Enter(r, d, InitialState, n)
                /\ \/ Stored(e) /\ n = NextSeq
                   \/ n \in DOMAIN journal /\ UNCHANGED <<journal, replay>>
                /\ Changes(r)
      \/ Errs(e) /\ UNCHANGED live
  BY DEF Create, Prior, ByIdemKey
<1> HIDE DEF e
<1>3. op'.at # "queue"
  BY DEF Create, Begins, Settle, Idle
<1> QED
  BY <1>1, <1>2, <1>3, EnterKeeps

LEMMA ImportKeeps ==
  ASSUME WorkflowInv, SettledInv, NEW r \in Rec, NEW d \in Data,
         NEW s \in State, ImportRecord(r, d, s)
  PROVE  SettledInv'
<1> DEFINE e == Imported(r, d, s)
<1>1. /\ e \in EventSet /\ e.kind = "created"
      /\ e.rec = r /\ e.data = d /\ e.to = s
  BY EventTypes DEF Imported, Event
<1>2. \/ \E n : /\ Enter(r, d, s, n)
                /\ \/ Stored(e) /\ n = NextSeq
                   \/ n \in DOMAIN journal /\ UNCHANGED <<journal, replay>>
                /\ Changes(r)
      \/ Errs(e) /\ UNCHANGED live
  BY DEF ImportRecord
<1> HIDE DEF e
<1>3. op'.at # "queue"
  BY DEF ImportRecord, Begins, Idle
<1> QED
  BY <1>1, <1>2, <1>3, EnterKeeps

LEMMA UpdateKeeps ==
  ASSUME WorkflowInv, SettledInv, NEW r \in Rec, NEW d \in Data,
         NEW key \in ClientKey, Update(r, d, key)
  PROVE  SettledInv'
<1> DEFINE e == Updated(r, d, key)
<1>1. e \in EventSet /\ e.kind = "updated" /\ e.rec = r
  BY EventTypes DEF Updated, Event
<1>2. \/ /\ Stored(e) \/ UNCHANGED <<journal, replay>>
         /\ live' = [live EXCEPT !.data[r] = d]
         /\ Changes(r)
      \/ Errs(e) /\ UNCHANGED live
  BY DEF Update, Prior
<1>3. op'.at # "queue"
  BY DEF Update, Begins, Settle, Idle
<1> HIDE DEF e
<1>4. CASE Errs(e) /\ UNCHANGED live
  BY <1>1, <1>3, <1>4, ErrsKeeps, KeptOffQueue DEF KeyTells
<1>5. CASE /\ Stored(e) \/ UNCHANGED <<journal, replay>>
           /\ live' = [live EXCEPT !.data[r] = d]
           /\ Changes(r)
  <2>1. /\ journal \in Seq(EventSet) /\ Len(journal) \in Nat
        /\ live \in Projection
    BY DEF WorkflowInv, JournalInv, LiveInv
  <2>2. /\ live'.tasks = live.tasks /\ live'.since = live.since
        /\ \A s \in Rec \ {r} : Same(live, live', s)
    BY <1>5, <2>1 DEF Projection, Same
  <2>3. live'.since[r] <= Len(journal')
    <3>1. Len(journal') \in Nat /\ Len(journal') >= Len(journal)
      BY <1>5, <2>1 DEF Stored
    <3>2. live.since[r] \in Nat /\ live.since[r] <= Len(journal)
      BY <2>1 DEF SettledInv, EnteredBy, Projection
    <3> QED
      BY <2>1, <2>2, <3>1, <3>2
  <2>4. Kept
    BY <1>1, <1>5, <2>2, <2>3, ChangeKeeps DEF Changing
  <2> QED
    BY <1>3, <2>4, KeptOffQueue
<1> QED
  BY <1>2, <1>4, <1>5

(* A step about approvals: no record and no task changes.                  *)
LEMMA ApprovalKeeps ==
  ASSUME WorkflowInv, SettledInv, NEW e \in EventSet,
         e.kind \in {"requested", "granted", "rejected"},
         \/ /\ Stored(e) \/ UNCHANGED <<journal, replay>>
            /\ live'.state = live.state /\ live'.data = live.data
            /\ live'.since = live.since /\ live'.tasks = live.tasks
            /\ UNCHANGED rough
         \/ Errs(e) /\ UNCHANGED live,
         op'.at # "queue"
  PROVE  SettledInv'
<1>1. KeyTells(e, NextSeq)
  BY DEF KeyTells
<1>2. CASE Errs(e) /\ UNCHANGED live
  BY <1>1, <1>2, ErrsKeeps, KeptOffQueue
<1>3. CASE /\ Stored(e) \/ UNCHANGED <<journal, replay>>
           /\ live'.state = live.state /\ live'.data = live.data
           /\ live'.since = live.since /\ live'.tasks = live.tasks
           /\ UNCHANGED rough
  <2>1. /\ journal \in Seq(EventSet) /\ Len(journal) \in Nat
        /\ live \in Projection
    BY DEF WorkflowInv, JournalInv, LiveInv
  <2>2. EnteredBy(live', Len(journal'))
    <3>1. Len(journal') \in Nat /\ Len(journal') >= Len(journal)
      BY <1>3, <2>1 DEF Stored
    <3>2. \A r \in Rec : live.since[r] \in Nat
      BY <2>1 DEF Projection
    <3> QED
      BY <1>3, <2>1, <3>1, <3>2 DEF SettledInv, EnteredBy
  <2>3. Kept
    BY <1>1, <1>3, <2>2, StepKeeps DEF Kept, Same, Changing
  <2> QED
    BY <2>3, KeptOffQueue
<1> QED
  BY <1>2, <1>3

LEMMA ActKeeps ==
  ASSUME WorkflowInv, SettledInv, NEW r \in Rec, NEW action \in Action,
         NEW key \in ClientKey, Act(r, action, key)
  PROVE  SettledInv'
<1>1. /\ op = Idle /\ live \in Projection /\ live.state[r] \in State
  BY DEF Act, Begins, WorkflowInv, LiveInv, Exists, Projection
<1>2. PICK t \in FindTransition(action, live.state[r]) :
        \/ LET e == Moved(r, action, live.state[r], t.to, None, key) IN
           \/ Move(e) /\ op' = Settle(r, 0, "act")
           \/ Errs(e) /\ UNCHANGED <<live, op>>
        \/ /\ Unused # {}
           /\ LET a == CHOOSE a \in Unused : TRUE
                  e == Requested(r, action, live.state[r], t.to, a, key)
              IN \/ /\ Stored(e) \/ \E n \in ByIdemKey(key) : Prior(e, n)
                    /\ live' = [live EXCEPT !.appr[a] =
                         Approval(r, action, live.state[r], t.to, "pending")]
                    /\ UNCHANGED <<unheard, rough>>
                 \/ Errs(e) /\ UNCHANGED live
           /\ UNCHANGED op
  BY DEF Act
<1>3. t.action = action /\ t.to \in State
  BY TransitionType
<1>4. CASE LET e == Moved(r, action, live.state[r], t.to, None, key) IN
           \/ Move(e) /\ op' = Settle(r, 0, "act")
           \/ Errs(e) /\ UNCHANGED <<live, op>>
  <2> DEFINE e == Moved(r, action, live.state[r], t.to, None, key)
  <2>1. e \in EventSet /\ e.kind = "action"
    BY <1>1, <1>3, EventTypes DEF Moved, Event
  <2>2. /\ Move(e) \/ (Errs(e) /\ UNCHANGED live)
        /\ op'.at # "queue"
    BY <1>1, <1>4 DEF Settle, Idle
  <2> HIDE DEF e
  <2> QED
    BY <2>1, <2>2, MoveKeeps
<1>5. ASSUME NEW a \in Unused,
             LET e == Requested(r, action, live.state[r], t.to, a, key)
             IN \/ /\ Stored(e) \/ \E n \in ByIdemKey(key) : Prior(e, n)
                   /\ live' = [live EXCEPT !.appr[a] =
                        Approval(r, action, live.state[r], t.to, "pending")]
                   /\ UNCHANGED <<unheard, rough>>
                \/ Errs(e) /\ UNCHANGED live,
             UNCHANGED op
      PROVE  SettledInv'
  <2> DEFINE e == Requested(r, action, live.state[r], t.to, a, key)
             p == Approval(r, action, live.state[r], t.to, "pending")
  <2>1. e \in EventSet /\ e.kind = "requested"
    BY <1>1, <1>3, <1>5, EventTypes DEF Requested, Event, Unused
  <2>2. \/ /\ Stored(e) \/ UNCHANGED <<journal, replay>>
           /\ live' = [live EXCEPT !.appr[a] = p]
           /\ UNCHANGED rough
        \/ Errs(e) /\ UNCHANGED live
    BY <1>5 DEF Prior
  <2> HIDE DEF e, p
  <2>3. \/ /\ Stored(e) \/ UNCHANGED <<journal, replay>>
           /\ live'.state = live.state /\ live'.data = live.data
           /\ live'.since = live.since /\ live'.tasks = live.tasks
           /\ UNCHANGED rough
        \/ Errs(e) /\ UNCHANGED live
    BY <1>1, <2>2 DEF Projection
  <2>4. op'.at # "queue"
    BY <1>1, <1>5 DEF Idle
  <2> QED
    BY <2>1, <2>3, <2>4, ApprovalKeeps
<1>6. CASE Unused # {}
  BY <1>2, <1>4, <1>5, <1>6
<1> QED
  BY <1>2, <1>4, <1>6

LEMMA DecideKeeps ==
  ASSUME WorkflowInv, SettledInv, NEW a \in ApprovalId,
         NEW kind \in {"granted", "rejected"}, Decide(a, kind)
  PROVE  SettledInv'
<1> DEFINE e == Decided(kind, a)
<1>1. e \in EventSet /\ e.kind \in {"granted", "rejected"}
  BY EventTypes DEF Decided, Event
<1>2. /\ op = Idle /\ live \in Projection
      /\ \/ /\ Stored(e)
            /\ live' = [live EXCEPT !.appr[a].status = kind]
            /\ op' = IF kind = "granted" THEN Signed(a) ELSE Idle
            /\ UNCHANGED aux
         \/ Errs(e) /\ UNCHANGED <<live, op>>
  BY DEF Decide, Begins, WorkflowInv, LiveInv
<1> HIDE DEF e
<1>3. op'.at # "queue"
  BY <1>2 DEF Signed, Idle
<1>4. \/ /\ Stored(e) \/ UNCHANGED <<journal, replay>>
         /\ live'.state = live.state /\ live'.data = live.data
         /\ live'.since = live.since /\ live'.tasks = live.tasks
         /\ UNCHANGED rough
      \/ Errs(e) /\ UNCHANGED live
  BY <1>2 DEF Projection, aux
<1> QED
  BY <1>1, <1>3, <1>4, ApprovalKeeps
LEMMA MoveSignedKeeps ==
  ASSUME WorkflowInv, SettledInv, MoveSigned
  PROVE  SettledInv'
<1> DEFINE p == live.appr[op.appr]
           e == Moved(p.rec, p.action, p.from, p.to, op.appr, NoKey)
<1>1. op.at = "signed" /\ op.appr \in ApprovalId /\ p # NoApproval
  BY DEF MoveSigned, WorkflowInv, CallInv, Continuation, Idle
<1>2. /\ p.rec \in Rec /\ p.action \in Action
      /\ p.from \in State /\ p.to \in State
  BY <1>1 DEF WorkflowInv, LiveInv, Projection
<1>3. e \in EventSet /\ e.kind = "action"
  BY <1>1, <1>2, KeyType, EventTypes DEF Moved, Event
<1>4. \/ op' = Idle /\ UNCHANGED <<journal, live, replay, aux>>
      \/ Move(e) /\ op' = Settle(p.rec, 0, "act")
      \/ Errs(e) /\ op' = Idle /\ UNCHANGED live
  BY DEF MoveSigned
<1> HIDE DEF p, e
<1>5. op'.at # "queue"
  BY <1>4 DEF Settle, Idle
<1>6. CASE op' = Idle /\ UNCHANGED <<journal, live, replay, aux>>
  BY <1>5, <1>6
     DEF SettledInv, KeysTell, EnteredBy, RecordsDone, CallOnTheWay, aux
<1> QED
  BY <1>3, <1>4, <1>5, <1>6, MoveKeeps

LEMMA HopKeeps ==
  ASSUME WorkflowInv, SettledInv, Hop
  PROVE  SettledInv'
<1>1. /\ op \in [at: {"settle"}, rec: Rec, hops: Nat, on: Trigger]
      /\ live.state[op.rec] \in State
  BY DEF Hop, WorkflowInv, CallInv, Continuation, Idle, LiveInv, Projection,
         Exists
<1>2. PICK t \in NextAuto(op.rec) :
        LET e == Moved(op.rec, t.action, live.state[op.rec], t.to, None, NoKey)
        IN \/ Move(e)
           \/ Errs(e) /\ UNCHANGED live
  BY DEF Hop
<1> DEFINE e == Moved(op.rec, t.action, live.state[op.rec], t.to, None, NoKey)
<1>3. e \in EventSet /\ e.kind = "action"
  BY <1>1, TransitionType, KeyType, EventTypes DEF Moved, Event
<1>4. Move(e) \/ (Errs(e) /\ UNCHANGED live)
  BY <1>2
<1> HIDE DEF e
<1>5. op'.at # "queue"
  BY <1>1 DEF Hop
<1> QED
  BY <1>3, <1>4, <1>5, MoveKeeps

LEMMA HopsDoneKeeps ==
  ASSUME WorkflowInv, SettledInv, HopsDone
  PROVE  SettledInv'
<1>1. op \in [at: {"settle"}, rec: Rec, hops: Nat, on: Trigger]
  BY DEF HopsDone, WorkflowInv, CallInv, Continuation, Idle
<1>2. UNCHANGED <<journal, live, replay, rough>>
  BY DEF HopsDone, aux
<1>3. KeysTell' /\ EnteredBy(live, Len(journal))'
      /\ EnteredBy(replay, Len(journal))' /\ RecordsDone'
  BY <1>2 DEF SettledInv, KeysTell, EnteredBy, RecordsDone
<1>4. CallOnTheWay'
  <2> DEFINE clean == op.hops < HopLimit
  <2>1. clean => NextAuto(op.rec) = {}
    BY <1>1, WorkflowAssumption DEF HopsDone
  <2>2. op' = Queue(op.rec, op.on, 1, clean)
    BY DEF HopsDone
  <2> HIDE DEF clean
  <2>3. op'.rec = op.rec /\ op'.next = 1
    BY <2>2 DEF Queue
  <2>4. op'.clean => clean
    BY <2>2, Zenon DEF Queue
  <2>5. clean => IsSettled(live, op.rec)
    BY <1>1, <2>1, NothingFires
  <2>6. IsStaffed(journal, live, op.rec, 1)
    BY WorkflowAssumption DEF IsStaffed
  <2>7. op'.clean => IsSettled(live', op'.rec)
    BY <1>2, <2>3, <2>4, <2>5
  <2>8. IsStaffed(journal', live', op'.rec, op'.next)
    BY <1>2, <2>3, <2>6
  <2> QED
    BY <2>7, <2>8 DEF CallOnTheWay
<1> QED
  BY <1>3, <1>4 DEF SettledInv

LEMMA ReturnKeeps ==
  ASSUME WorkflowInv, SettledInv, Return
  PROVE  SettledInv'
<1>1. op \in [at: {"queue"}, rec: Rec, on: Trigger, next: Nat, clean: BOOLEAN]
  BY DEF Return, WorkflowInv, CallInv, Continuation, Idle
<1>2. /\ UNCHANGED <<journal, live, replay>> /\ op' = Idle
      /\ DueAt(op.rec, op.on, op.next) = {}
      /\ rough' = IF op.clean /\ ~skew THEN rough \ {op.rec} ELSE rough
  BY DEF Return
<1>3. ASSUME op.clean, ~skew
      PROVE  IsDone(journal, live, op.rec) /\ IsDone(journal, replay, op.rec)
  <2>1. op.at = "queue" /\ op.rec \in Rec /\ op.next \in Nat
    BY <1>1
  <2>2. /\ IsSettled(live, op.rec)
        /\ IsStaffed(journal, live, op.rec, op.next)
    BY <1>3, <2>1 DEF SettledInv, CallOnTheWay
  <2>3. IsStaffed(journal, live, op.rec, All)
    BY <1>2, <2>1, <2>2, NothingDue
  <2>4. live = replay
    BY <1>3 DEF WorkflowInv, ReplayRestores
  <2>5. IsDone(journal, live, op.rec)
    BY <2>2, <2>3 DEF IsDone
  <2> QED
    BY <2>4, <2>5
<1>4. RecordsDone'
  <2> SUFFICES ASSUME NEW r \in Rec, r \notin rough'
               PROVE  IsDone(journal, live, r) /\ IsDone(journal, replay, r)
    BY <1>2 DEF RecordsDone
  <2>1. CASE r \notin rough
    BY <2>1 DEF SettledInv, RecordsDone
  <2>2. CASE r \in rough
    <3>1. op.clean /\ ~skew /\ r = op.rec
      BY <1>2, <2>2
    <3> QED
      BY <1>3, <3>1
  <2> QED
    BY <2>1, <2>2
<1>5. KeysTell' /\ EnteredBy(live, Len(journal))'
      /\ EnteredBy(replay, Len(journal))'
  BY <1>2 DEF SettledInv, KeysTell, EnteredBy
<1>6. CallOnTheWay'
  BY <1>2 DEF CallOnTheWay, Idle
<1> QED
  BY <1>4, <1>5, <1>6 DEF SettledInv

LEMMA RestartKeeps ==
  ASSUME WorkflowInv, SettledInv, Restart
  PROVE  SettledInv'
BY DEF Restart, SettledInv, KeysTell, EnteredBy, RecordsDone, CallOnTheWay, Idle

(* createTask: the task of a transition is found under its key or made,    *)
(* and is younger than the stay it is for.                                 *)
LEMMA CreateTaskKeeps ==
  ASSUME WorkflowInv, SettledInv, CreateTask
  PROVE  SettledInv'
<1>1. /\ op \in [at: {"queue"}, rec: Rec, on: Trigger, next: Nat, clean: BOOLEAN]
      /\ live \in Projection /\ live.state[op.rec] # None
      /\ journal \in Seq(EventSet) /\ Len(journal) \in Nat
      /\ DOMAIN journal = 1..Len(journal) /\ NextSeq = Len(journal) + 1
      /\ live.tasks \subseteq DOMAIN journal
      /\ live.since[op.rec] \in Nat
  BY DEF CreateTask, WorkflowInv, CallInv, Continuation, Idle, LiveInv,
         JournalInv, NextSeq, Exists, Projection
<1>2. PICK j \in DueAt(op.rec, op.on, op.next) :
        LET e == DueTask(op.rec, j) IN
        \/ /\ \/ Stored(e) /\ live' = [live EXCEPT !.tasks = @ \cup {NextSeq}]
              \/ \E n \in ByIdemKey(e.key) :
                   Prior(e, n) /\ live' = [live EXCEPT !.tasks = @ \cup {n}]
           /\ op' = [op EXCEPT !.next = j + 1]
           /\ UNCHANGED aux
        \/ /\ Errs(e)
           /\ op' = [op EXCEPT !.next = j + 1, !.clean = @ /\ e.key = NoKey]
           /\ UNCHANGED live
  BY DEF CreateTask
<1> DEFINE e == DueTask(op.rec, j)
<1>3. /\ e \in EventSet /\ e.kind = "task" /\ e.rec = op.rec
      /\ e.key \in TaskKeys
  BY <1>1, DueTaskType DEF WorkflowInv
<1>4. /\ j \in Nat /\ j >= op.next /\ j + 1 \in Nat
      /\ \A k \in op.next..(j - 1) : ~Due(op.rec, op.on, k)
  BY <1>1 DEF DueAt
<1>5. j \in DOMAIN Transitions =>
        /\ e.action = Transitions[j].action
        /\ e.key = TaskKey(op.rec, e.action, live.since[op.rec])
        /\ e.key # NoKey
  BY DEF DueTask, TaskCreated, Event, TaskKey, NoKey
<1>6. j \notin DOMAIN Transitions => e.key = NoKey
  BY DEF DueTask, TaskCreated, Event
<1>7. live.since[op.rec] < NextSeq
  BY <1>1 DEF SettledInv, EnteredBy
<1>8. KeyTells(e, NextSeq)
  BY <1>1, <1>3, <1>5, <1>6, <1>7 DEF KeyTells
<1>9. op'.rec = op.rec /\ op'.next = j + 1 /\ (op'.clean => op.clean)
  <2>1. CASE op' = [op EXCEPT !.next = j + 1]
    BY <1>1, <2>1
  <2>2. CASE op' = [op EXCEPT !.next = j + 1, !.clean = @ /\ e.key = NoKey]
    <3> DEFINE b == op.clean /\ e.key = NoKey
    <3>1. op' = [op EXCEPT !.next = j + 1, !.clean = b]
      BY <2>2
    <3> HIDE DEF b
    <3>2. op'.rec = op.rec /\ op'.next = j + 1 /\ op'.clean = b
      BY <1>1, <3>1
    <3>3. b => op.clean
      BY DEF b
    <3> QED
      BY <3>2, <3>3, Zenon
  <2> QED
    BY <1>2, <2>1, <2>2
<1> HIDE DEF e
(* Before j nothing was due, so all before j + 1 have their tasks once     *)
(* transition j has its own.                                               *)
<1>10. ASSUME IsStaffed(journal', live', op.rec, op.next),
              live'.state = live.state,
              j \in DOMAIN Transitions =>
                HasTask(journal', live', op.rec, Transitions[j].action)
       PROVE  IsStaffed(journal', live', op.rec, j + 1)
  <2> SUFFICES ASSUME NEW i \in DOMAIN Transitions, i < j + 1,
                      live'.state[op.rec] # None,
                      Transitions[i].assigned, ~Transitions[i].auto,
                      Leaves(Transitions[i], live'.state[op.rec])
               PROVE  HasTask(journal', live', op.rec, Transitions[i].action)
    BY DEF IsStaffed
  <2>1. i \in Nat
    BY WorkflowAssumption
  <2>2. CASE i < op.next
    BY <1>10, <2>2 DEF IsStaffed
  <2>3. CASE i = j
    BY <1>10, <2>3
  <2>4. CASE i >= op.next /\ i < j
    <3>1. i \in op.next..(j - 1)
      BY <1>1, <1>4, <2>1, <2>4
    <3>2. Due(op.rec, op.on, i)
      BY <1>10 DEF Due
    <3> QED
      BY <1>4, <3>1, <3>2
  <2> QED
    BY <1>1, <1>4, <2>1, <2>2, <2>3, <2>4
<1>11. CASE /\ Errs(e) /\ UNCHANGED live
            /\ op' = [op EXCEPT !.next = j + 1, !.clean = @ /\ e.key = NoKey]
  <2>1. Kept /\ \A n \in live.tasks : journal'[n] = journal[n]
    BY <1>3, <1>8, <1>11, ErrsKeeps
  <2>2. op'.clean => e.key = NoKey
    <3> DEFINE b == op.clean /\ e.key = NoKey
    <3>1. op' = [op EXCEPT !.next = j + 1, !.clean = b]
      BY <1>11
    <3> HIDE DEF b
    <3>2. op'.clean = b
      BY <1>1, <3>1
    <3>3. b => e.key = NoKey
      BY DEF b
    <3> QED
      BY <3>2, <3>3, Zenon
  <2>3. ASSUME op'.clean
        PROVE  /\ IsSettled(live', op'.rec)
               /\ IsStaffed(journal', live', op'.rec, op'.next)
    <3>1. /\ IsSettled(live, op.rec)
          /\ IsStaffed(journal, live, op.rec, op.next)
      BY <1>1, <1>9, <2>3 DEF SettledInv, CallOnTheWay
    <3>2. IsStaffed(journal', live', op.rec, op.next)
      BY <1>11, <2>1, <3>1, DoneStays
    <3>3. j \notin DOMAIN Transitions
      BY <1>5, <2>2, <2>3
    <3>4. IsStaffed(journal', live', op.rec, j + 1)
      BY <1>10, <1>11, <3>2, <3>3
    <3> QED
      BY <1>9, <1>11, <3>1, <3>4
  <2> QED
    BY <2>1, <2>3 DEF Kept, SettledInv, CallOnTheWay
<1>12. ASSUME NEW n, live' = [live EXCEPT !.tasks = @ \cup {n}], UNCHANGED aux,
              \/ Stored(e) /\ n = NextSeq
              \/ n \in ByIdemKey(e.key) /\ Prior(e, n)
       PROVE  SettledInv'
  <2>1. /\ live'.tasks = live.tasks \cup {n} /\ live'.state = live.state
        /\ live'.data = live.data /\ live'.since = live.since
    BY <1>1, <1>12 DEF Projection
  <2>2. Stored(e) \/ UNCHANGED <<journal, replay>>
    BY <1>12 DEF Prior
  <2>3. EnteredBy(live', Len(journal'))
    <3>1. Len(journal') \in Nat /\ Len(journal') >= Len(journal)
      BY <1>1, <2>2 DEF Stored
    <3>2. \A r \in Rec : live.since[r] \in Nat
      BY <1>1 DEF Projection
    <3> QED
      BY <1>1, <2>1, <3>1, <3>2 DEF SettledInv, EnteredBy
  <2>4. Kept /\ \A m \in live.tasks : journal'[m] = journal[m]
    <3>1. \A r \in Rec \ rough' :
            /\ r \notin rough /\ Same(live, live', r)
            /\ Stored(e) /\ e.kind \in Changing => r # e.rec
      BY <1>3, <1>12, <2>1 DEF Same, Changing, aux
    <3>2. live.tasks \subseteq live'.tasks
      BY <2>1
    <3> QED
      BY <1>3, <1>8, <2>2, <2>3, <3>1, <3>2, StepKeeps DEF Kept
  <2>5. j \in DOMAIN Transitions =>
          HasTask(journal', live', op.rec, Transitions[j].action)
    <3> SUFFICES ASSUME j \in DOMAIN Transitions
                 PROVE  /\ n > live.since[op.rec]
                        /\ journal'[n].rec = op.rec
                        /\ journal'[n].action = Transitions[j].action
      BY <2>1 DEF HasTask
    <3>1. CASE Stored(e) /\ n = NextSeq
      <4>1. journal'[n] = e
        BY <1>1, <3>1 DEF Stored
      <4> QED
        BY <1>1, <1>3, <1>5, <1>7, <3>1, <4>1
    <3>2. CASE n \in ByIdemKey(e.key) /\ Prior(e, n)
      <4>1. /\ n \in DOMAIN journal /\ n \in Nat /\ journal[n] \in EventSet
            /\ journal[n].key = e.key /\ e.key # NoKey
        BY <1>1, <3>2 DEF ByIdemKey
      <4>2. journal[n].key \notin ClientKey
        BY <1>3, <4>1, KeysDiffer
      <4>3. journal[n].kind = "task"
        BY <4>1, <4>2, KeyType DEF EventSet
      <4>4. PICK s \in Nat :
              /\ s < n
              /\ e.key = TaskKey(journal[n].rec, journal[n].action, s)
        BY <4>1, <4>3 DEF SettledInv, KeysTell, KeyTells
      <4>5. /\ journal[n].rec = op.rec /\ journal[n].action = e.action
            /\ s = live.since[op.rec]
        BY <1>5, <4>4 DEF TaskKey
      <4>6. UNCHANGED journal
        BY <3>2 DEF Prior
      <4> QED
        BY <1>1, <1>5, <4>1, <4>4, <4>5, <4>6
    <3> QED
      BY <1>12, <3>1, <3>2
  <2>6. ASSUME op'.clean
        PROVE  /\ IsSettled(live', op'.rec)
               /\ IsStaffed(journal', live', op'.rec, op'.next)
    <3>1. /\ IsSettled(live, op.rec)
          /\ IsStaffed(journal, live, op.rec, op.next)
      BY <1>1, <1>9, <2>6 DEF SettledInv, CallOnTheWay
    <3>2. /\ IsSettled(live', op.rec)
          /\ IsStaffed(journal', live', op.rec, op.next)
      BY <2>1, <2>4, <3>1, DoneStays
    <3>3. IsStaffed(journal', live', op.rec, j + 1)
      BY <1>10, <2>1, <2>5, <3>2
    <3> QED
      BY <1>9, <3>2, <3>3
  <2> QED
    BY <2>4, <2>6 DEF Kept, SettledInv, CallOnTheWay
<1> QED
  BY <1>2, <1>11, <1>12 DEF e

-----------------------------------------------------------------------------
LEMMA SettledInit ==
  ASSUME Init
  PROVE  SettledInv
BY DEF Init, NoProjection, SettledInv, KeysTell, EnteredBy, RecordsDone, IsDone,
       IsSettled, IsStaffed, CallOnTheWay, Idle

LEMMA SettledStep ==
  ASSUME WorkflowInv, SettledInv, [Next]_vars
  PROVE  SettledInv'
<1>1. CASE UNCHANGED vars
  BY <1>1 DEF vars, aux, SettledInv, KeysTell, EnteredBy, RecordsDone,
              CallOnTheWay
<1>2. CASE Next
  BY <1>2, KeyType, CreateKeeps, UpdateKeeps, ImportKeeps, ActKeeps,
     DecideKeeps, MoveSignedKeeps, HopKeeps, HopsDoneKeeps, CreateTaskKeeps,
     ReturnKeeps, RestartKeeps DEF Next, Step
<1> QED
  BY <1>1, <1>2

(* What a call saw through stays done, in memory and for a restart.        *)
THEOREM RecordsAreDone == Spec => []SettledInv
<1>1. WorkflowInv /\ SettledInv /\ [Next]_vars => SettledInv'
  BY SettledStep
<1> QED
  BY <1>1, SettledInit, EngineIsSound, PTL DEF Spec

(* No auto transition is left that could fire on a record whose last       *)
(* change was seen through (runAutoTransitions).                           *)
THEOREM RecordsSettle == Spec => []Settled
<1>1. SettledInv => Settled
  BY DEF SettledInv, RecordsDone, IsDone, IsSettled, Settled, Exists, Fires
<1> QED
  BY <1>1, RecordsAreDone, PTL

(* Whoever is assigned a transition a record can take has a task for it    *)
(* (ensureWorkflowTasks).                                                  *)
THEOREM WorkIsThere == Spec => []WorkIsQueued
<1>1. SettledInv => WorkIsQueued
  <2> SUFFICES ASSUME SettledInv, NEW r \in Rec \ rough,
                      NEW i \in DOMAIN Transitions, Exists(r),
                      Transitions[i].assigned, ~Transitions[i].auto,
                      Leaves(Transitions[i], live.state[r])
               PROVE  \E n \in live.tasks :
                        /\ n > live.since[r]
                        /\ journal[n].rec = r
                        /\ journal[n].action = Transitions[i].action
    BY DEF WorkIsQueued
  <2>1. i < All
    BY WorkflowAssumption DEF All
  <2>2. IsStaffed(journal, live, r, All)
    BY DEF SettledInv, RecordsDone, IsDone
  <2> QED
    BY <2>1, <2>2 DEF IsStaffed, HasTask, Exists
<1> QED
  BY <1>1, RecordsAreDone, PTL
=============================================================================
