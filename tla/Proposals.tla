----------------------------- MODULE Proposals -----------------------------
(***************************************************************************)
(* The change pipeline (internal/engine/proposals.go): the definition a    *)
(* node runs changes only by a proposal that compiles, is additive, and is *)
(* granted by the definition approver.  A decision holds the engine's      *)
(* mutex through its one or two appends, and between the two it may fail   *)
(* or the node may die; an append may be stored and answered with an error *)
(* all the same.  A restart starts from the pack directory (the genesis)   *)
(* and folds the journal.                                                  *)
(*                                                                         *)
(* A refused call (no basis, not the approver, a bad signature, a pack     *)
(* that does not compile) changes nothing and is left out.                 *)
(***************************************************************************)
EXTENDS Compiler

CONSTANTS
  Pack,        \* the packs that authors may submit, and the genesis
  Source(_),   \* the parsed source of a pack
  Genesis,     \* the pack in the node's directory
  MaxProposals,  \* bound: how many proposals are stored
  MaxLost      \* bound: stored appends that are answered with an error

ASSUME ProposalsAssumption ==
  /\ Genesis \in Pack
  /\ MaxProposals \in Nat /\ MaxLost \in Nat

(* Ids are version 7 UUIDs: they grow with time. *)
ProposalId == 1..MaxProposals

VARIABLES
  journal,   \* the events
  live,      \* the projection in memory: running pack, its number, proposals
  replay,    \* the projection New would fold from the journal
  op,        \* what the decision that holds the mutex does next
  unheard    \* events whose append was answered with an error

vars == <<journal, live, replay, op, unheard>>

Idle == [at |-> "idle"]
Approved(id) == [at |-> "approved", id |-> id]

(* What Compile answers for each pack. *)
Accepted == {pack \in Pack : Compiles(Source(pack))}
ModelOf == [pack \in Pack |-> Model(Source(pack))]

ASSUME GenesisAssumption == Genesis \in Accepted

(* What the parser gives: the values of a type are a sequence, and a stuck *)
(* rule names its entity (parser_blocks.go, automationTrigger).            *)
IsSequence(v) == v \in Seq(Elements(v))

ASSUME SourceAssumption ==
  \A pack \in Accepted :
    /\ \A e \in Elements(Source(pack).entities) :
         \A f \in Elements(e.fields) : IsSequence(f.type.values)
    /\ \A rule \in Elements(Source(pack).automations) :
         rule.on = "stuck" => rule.entity # NoName

Running(p) == ModelOf[p.pack]

-----------------------------------------------------------------------------
(* validateAdditive: no entity or field disappears or changes type; the    *)
(* values of an enum stay where they are.  The options of an array[enum]   *)
(* are not compared.                                                       *)
SameType(t, u) ==
  t.kind = u.kind /\ t.scalar = u.scalar /\ t.target = u.target

(* A mutant: only the number of values is compared. *)
KeepsCount(t, u) == u.kind = "enum" => Len(t.values) <= Len(u.values)

KeepsValues(t, u) ==
  u.kind = "enum" =>
    /\ Len(t.values) <= Len(u.values)
    /\ \A i \in DOMAIN t.values : u.values[i] = t.values[i]

KeepsField(f, e) ==
  /\ f.name \in FieldNames(e)
  /\ SameType(f.type, FieldOf(e, f.name).type)
  /\ KeepsValues(f.type, FieldOf(e, f.name).type)

Additive(old, next) ==
  \A n \in DOMAIN old.entities :
    /\ n \in DOMAIN next.entities
    /\ \A f \in Elements(old.entities[n].fields) : KeepsField(f, next.entities[n])

(* diffPlan: what the approver is shown.  The empty plan is the line "no   *)
(* structural changes".                                                    *)
Plan(old, next) ==
  {<<"entity", n>> : n \in DOMAIN next.entities \ DOMAIN old.entities}
    \cup UNION {{<<"field", n, f>> : f \in FieldNames(next.entities[n])
                                            \ FieldNames(old.entities[n])} :
                  n \in DOMAIN next.entities \cap DOMAIN old.entities}
    \cup {<<"role", r>> : r \in next.roles \ old.roles}
    \cup {<<"workflow", n>> : n \in DOMAIN next.workflows \ DOMAIN old.workflows}

-----------------------------------------------------------------------------
(* Events, and what they do to a projection. *)
Event(kind, id, base, pack, plan) ==
  [kind |-> kind, id |-> id, base |-> base, pack |-> pack, plan |-> plan]

Decision(kind, id) == Event(kind, id, 0, Genesis, {})

NoProposal == [status |-> "none", base |-> 0, pack |-> Genesis, plan |-> {}]

Parked(base, pack, plan) ==
  [status |-> "pending", base |-> base, pack |-> pack, plan |-> plan]

Start ==
  [pack |-> Genesis, version |-> 1, proposals |-> [id \in ProposalId |-> NoProposal]]

(* A mutant: the pack directory stays the source of the definition. *)
ApplyEventSeed(p, e) ==
  CASE e.kind = "proposed" ->
         [p EXCEPT !.proposals[e.id] = Parked(e.base, e.pack, e.plan)]
    [] e.kind \in {"approved", "rejected", "applied"} ->
         [p EXCEPT !.proposals[e.id].status = e.kind,
                   !.version = @ + (IF e.kind = "applied" THEN 1 ELSE 0)]

(* applyEvent, its cases of a definition.  An applied event counts even    *)
(* when its proposal is not known.                                         *)
ApplyEvent(p, e) ==
  CASE e.kind = "proposed" ->
         [p EXCEPT !.proposals[e.id] = Parked(e.base, e.pack, e.plan)]
    [] e.kind \in {"approved", "rejected"} ->
         [p EXCEPT !.proposals[e.id].status = IF @ = "none" THEN @ ELSE e.kind]
    [] e.kind = "applied" ->
         IF p.proposals[e.id].status = "none"
         THEN [p EXCEPT !.version = @ + 1]
         ELSE [p EXCEPT !.version = @ + 1,
                        !.pack = p.proposals[e.id].pack,
                        !.proposals[e.id].status = "applied"]

Stored(e) ==
  /\ journal' = Append(journal, e)
  /\ replay' = ApplyEvent(replay, e)

Refused == UNCHANGED <<journal, replay, unheard>>

Lost(e) ==
  /\ Cardinality(unheard) < MaxLost
  /\ Stored(e)
  /\ unheard' = unheard \cup {Len(journal')}

(* An append that is answered with an error: refused, or stored all the    *)
(* same.  The caller returns and its projection stays as it was.           *)
Fails(e) == Refused \/ Lost(e)

-----------------------------------------------------------------------------
Init ==
  /\ journal = <<>>
  /\ live = Start /\ replay = Start
  /\ op = Idle
  /\ unheard = {}

NextId == 1 + Cardinality({n \in DOMAIN journal : journal[n].kind = "proposed"})

(* ProposeChange: the id is new, the base is the running definition. *)
ProposeChange(pack) ==
  LET id == NextId
      plan == Plan(Running(live), ModelOf[pack])
      e == Event("proposed", id, live.version, pack, plan)
  IN  /\ op = Idle /\ id \in ProposalId
      /\ pack \in Accepted
      /\ Additive(Running(live), ModelOf[pack])
      /\ \/ /\ Stored(e) /\ UNCHANGED unheard
            /\ live' = [live EXCEPT !.proposals[id] = Parked(live.version, pack, plan)]
         \/ Fails(e) /\ UNCHANGED live
      /\ UNCHANGED op

(* A mutant: the base is not compared again. *)
DecidableStale(id) == op = Idle /\ live.proposals[id].status = "pending"

(* What DecideProposal asks of a proposal before it decides. *)
Decidable(id) ==
  /\ op = Idle
  /\ live.proposals[id].status = "pending"
  /\ live.proposals[id].base = live.version

Reject(id) ==
  /\ Decidable(id)
  /\ \/ /\ Stored(Decision("rejected", id)) /\ UNCHANGED unheard
        /\ live' = [live EXCEPT !.proposals[id].status = "rejected"]
     \/ Fails(Decision("rejected", id)) /\ UNCHANGED live
  /\ UNCHANGED op

(* Mutants: a grant goes on after its first append failed; a grant forgets *)
(* to mark the proposal.                                                   *)
GrantHeedless(id) ==
  /\ Decidable(id)
  /\ \/ Stored(Decision("approved", id)) /\ UNCHANGED unheard
     \/ Fails(Decision("approved", id))
  /\ live' = [live EXCEPT !.proposals[id].status = "approved"]
  /\ op' = Approved(id)

GrantUnmarked(id) ==
  /\ Decidable(id)
  /\ \/ /\ Stored(Decision("approved", id)) /\ UNCHANGED <<unheard, live>>
        /\ op' = Approved(id)
     \/ Fails(Decision("approved", id)) /\ UNCHANGED <<live, op>>

Grant(id) ==
  /\ Decidable(id)
  /\ \/ /\ Stored(Decision("approved", id)) /\ UNCHANGED unheard
        /\ live' = [live EXCEPT !.proposals[id].status = "approved"]
        /\ op' = Approved(id)
     \/ Fails(Decision("approved", id)) /\ UNCHANGED <<live, op>>

(* The second append of a grant, under the same lock. *)
Apply ==
  /\ op.at = "approved"
  /\ live.proposals[op.id].pack \in Accepted
  /\ \/ /\ Stored(Decision("applied", op.id)) /\ UNCHANGED unheard
        /\ live' = [live EXCEPT !.version = @ + 1,
                                !.pack = live.proposals[op.id].pack,
                                !.proposals[op.id].status = "applied"]
     \/ Fails(Decision("applied", op.id)) /\ UNCHANGED live
  /\ op' = Idle

(* The node dies, whatever it was doing, and New folds the journal. *)
Restart ==
  /\ live' = replay
  /\ op' = Idle
  /\ UNCHANGED <<journal, replay, unheard>>

Next ==
  \/ \E pack \in Pack : ProposeChange(pack)
  \/ \E id \in ProposalId : Reject(id) \/ Grant(id)
  \/ Apply
  \/ Restart

Spec == Init /\ [][Next]_vars

-----------------------------------------------------------------------------
Status == {"none", "pending", "approved", "rejected", "applied"}

(* The shape of the state.  A decision between its appends is of a         *)
(* proposal that is marked approved.                                       *)
TypeOK ==
  /\ \A p \in {live, replay} :
       /\ p.pack \in Pack /\ p.version \in 1..(MaxProposals + 1)
       /\ DOMAIN p.proposals = ProposalId
       /\ \A id \in ProposalId : p.proposals[id].status \in Status
  /\ op \in {Idle} \cup {Approved(id) : id \in ProposalId}
  /\ op # Idle => live.proposals[op.id].status = "approved"

(* While every append was answered truly, the projection in memory is what *)
(* a restart folds, also between the two appends of a grant                *)
(* (engine.go, applyEvent; proposals.go, DecideProposal).                  *)
ReplayRestores == unheard = {} => live = replay

(* What the journal says of an applied change: the last decision about it  *)
(* before was a grant, and it is applied once.  It holds whatever was lost,*)
(* retried or decided twice (DecideProposal: definitions change only by a  *)
(* human signature).                                                       *)
LastDecision(id, n) ==
  LET decided == {m \in 1..(n - 1) :
                    journal[m].id = id /\ journal[m].kind \in {"approved", "rejected"}}
  IN  IF decided = {} THEN "none"
      ELSE journal[CHOOSE m \in decided : \A k \in decided : k <= m].kind

ChangesAreSigned ==
  \A n \in DOMAIN journal : journal[n].kind = "applied" =>
    /\ LastDecision(journal[n].id, n) = "approved"
    /\ \A m \in 1..(n - 1) :
         journal[m].kind = "applied" => journal[m].id # journal[n].id

(* What the approver signed is what happens: when a node swaps its         *)
(* definition in a decision, the change is the plan the proposal showed    *)
(* when it was parked, whatever was applied in between                     *)
(* (proposals.go: the plan "shown at signing time"; the stale-base check). *)
PlanIsHonest ==
  [][(op # Idle /\ live.version # live'.version /\ op' = Idle /\ journal' # journal) =>
       live.proposals[op.id].plan = Plan(Running(live), Running(live)')]_vars

(* What the values of a field are taken from: the values of its enum, the  *)
(* options of its array[enum], and for the rest its type.                  *)
TypeOf(m, x) == FieldOf(m.entities[x[1]], x[2]).type

Legal(t) ==
  IF t.kind \in {"enum", "multienum"} THEN Elements(t.values)
  ELSE {<<t.kind, t.scalar, t.target>>}

Fields(m) ==
  UNION {{<<n, f>> : f \in FieldNames(m.entities[n])} : n \in DOMAIN m.entities}

KeepsData(m, next) ==
  /\ Fields(m) \subseteq Fields(next)
  /\ \A x \in Fields(m) :
       /\ SameType(TypeOf(m, x), TypeOf(next, x))
       /\ TypeOf(m, x).kind # "multienum" =>
            Legal(TypeOf(m, x)) \subseteq Legal(TypeOf(next, x))

(* Across decisions, lost answers and restarts, every entity and field a   *)
(* node ever served stays, with its type, and so does every value of an    *)
(* enum: what the definition before allowed in a record, the definition    *)
(* after allows (validateAdditive).  The options of an array[enum] are     *)
(* excepted: nothing keeps them, against DSL-SPEC-v0.md, section 9.        *)
DataStaysLegal == [][KeepsData(Running(live), Running(live)')]_vars

(* Whatever definition runs, the engine finds in it what it takes for      *)
(* granted: the workflow of a stuck rule's entity and the entity of every  *)
(* rule (automation.go, Tick), the entity of a workflow, and states that   *)
(* are values of the field they are written to (workflow.go,               *)
(* applyTransition, which validates nothing).                              *)
RunningModelIsSound ==
  LET m == Running(live)
  IN  /\ \A rule \in m.automations :
           /\ rule.entity # NoName => rule.entity \in DOMAIN m.entities
           /\ rule.on = "stuck" => rule.entity \in DOMAIN m.workflows
      /\ \A n \in DOMAIN m.workflows :
           /\ n \in DOMAIN m.entities
           /\ \A t \in Elements(m.workflows[n].transitions) :
                t.to \in States(m.entities[n], m.workflows[n].field)
=============================================================================
