-------------------------- MODULE ProposalsProofs --------------------------
(***************************************************************************)
(* Proofs about the change pipeline, for any set of packs, any number of   *)
(* proposals and of lost answers, and any number of restarts.              *)
(***************************************************************************)
EXTENDS Proposals, TLAPS, FiniteSetTheorems, SequenceTheorems

Plans == {{}} \cup {Plan(ModelOf[a], ModelOf[b]) : a, b \in Pack}

Proposal == [status : Status, base : Nat, pack : Accepted, plan : Plans]

Projection ==
  [pack : Accepted, version : Nat \ {0}, proposals : [ProposalId -> Proposal]]

Kinds == {"proposed", "approved", "rejected", "applied"}

Events ==
  [kind : Kinds, id : ProposalId, base : Nat, pack : Accepted, plan : Plans]

Types ==
  /\ live \in Projection
  /\ replay \in Projection
  /\ journal \in Seq(Events)
  /\ op \in {Idle} \cup {Approved(id) : id \in ProposalId}

(* A definition's number counts the changes that were applied. *)
AppliedIn(p) == {id \in ProposalId : p.proposals[id].status = "applied"}

Counted == replay.version = 1 + Cardinality(AppliedIn(replay))

(* The node in memory may be behind its journal, never ahead; on the same  *)
(* number it runs the same pack.                                           *)
Behind ==
  /\ live.version <= replay.version
  /\ live.version = replay.version => live.pack = replay.pack

(* An id that is still to come is known to nobody. *)
FreshIds ==
  \A id \in ProposalId : id >= NextId =>
    live.proposals[id].status = "none" /\ replay.proposals[id].status = "none"

(* How far the journal may be ahead of the memory about one proposal. *)
Ahead(s) ==
  CASE s = "none" -> Status
    [] s = "pending" -> {"pending", "approved", "rejected"}
    [] s = "approved" -> {"approved", "applied"}
    [] s = "rejected" -> {"rejected"}
    [] s = "applied" -> {"applied"}

SameProposal(a, b) == a.base = b.base /\ a.pack = b.pack /\ a.plan = b.plan

Follows ==
  \A id \in ProposalId :
    /\ replay.proposals[id].status \in Ahead(live.proposals[id].status)
    /\ live.proposals[id].status # "none" =>
         SameProposal(live.proposals[id], replay.proposals[id])

(* What a proposal showed is what it does to the definition it is based on. *)
HonestAbout(p, id) ==
  /\ p.proposals[id].plan = Plan(Running(p), ModelOf[p.proposals[id].pack])
  /\ Additive(Running(p), ModelOf[p.proposals[id].pack])

Honest(p) ==
  \A id \in ProposalId : p.proposals[id].status = "pending" =>
    /\ p.proposals[id].base <= p.version
    /\ p.proposals[id].base = p.version => HonestAbout(p, id)

(* A grant between its two appends. *)
GrantUnderWay ==
  \A id \in ProposalId : op = Approved(id) =>
    /\ live.proposals[id].status = "approved"
    /\ replay.proposals[id].status = "approved"
    /\ HonestAbout(live, id)

(* What the node in memory allows, the definition of its journal allows. *)
JournalExtends == KeepsData(Running(live), Running(replay))

(* The last decision about a proposal before place n is of this kind. *)
DecidedLast(j, id, n, kind) ==
  \E m \in 1..(n - 1) :
    /\ j[m].id = id /\ j[m].kind = kind
    /\ \A k \in 1..(n - 1) :
         (j[k].id = id /\ j[k].kind \in {"approved", "rejected"}) => k <= m

Marked ==
  \A id \in ProposalId :
    replay.proposals[id].status \in {"approved", "rejected"} =>
      DecidedLast(journal, id, Len(journal) + 1, replay.proposals[id].status)

Signed ==
  \A n \in DOMAIN journal : journal[n].kind = "applied" =>
    /\ replay.proposals[journal[n].id].status = "applied"
    /\ DecidedLast(journal, journal[n].id, n, "approved")
    /\ \A m \in 1..(n - 1) :
         journal[m].kind = "applied" => journal[m].id # journal[n].id

(* The inductive invariant. *)
PipelineInv ==
  /\ Types /\ Counted /\ Behind /\ FreshIds /\ Follows
  /\ Honest(live) /\ Honest(replay) /\ GrantUnderWay /\ JournalExtends
  /\ Marked /\ Signed

-----------------------------------------------------------------------------
(* One proposal of a projection is replaced; the rest stays. *)
Replaced(p, q, id, x) ==
  /\ q.proposals[id] = x
  /\ \A i \in ProposalId : i # id => q.proposals[i] = p.proposals[i]

SameHead(p, q) == q.pack = p.pack /\ q.version = p.version

(* A proposal changes its status only. *)
Turned(p, q, id, s) ==
  /\ q.proposals[id].status = s
  /\ SameProposal(p.proposals[id], q.proposals[id])
  /\ \A i \in ProposalId : i # id => q.proposals[i] = p.proposals[i]

(* The writes of the pipeline on a projection: a proposal is parked, is    *)
(* decided, is applied.                                                    *)
LEMMA Parking ==
  ASSUME NEW p \in Projection, NEW id \in ProposalId, NEW x \in Proposal,
         NEW q, q = [p EXCEPT !.proposals[id] = x]
  PROVE  q \in Projection /\ Replaced(p, q, id, x) /\ SameHead(p, q)
BY DEF Projection, Replaced, SameHead

LEMMA Turning ==
  ASSUME NEW p \in Projection, NEW id \in ProposalId, NEW s \in Status,
         NEW q, q = [p EXCEPT !.proposals[id].status = s]
  PROVE  q \in Projection /\ Turned(p, q, id, s) /\ SameHead(p, q)
BY DEF Projection, Proposal, Turned, SameHead, SameProposal

LEMMA Applying ==
  ASSUME NEW p \in Projection, NEW id \in ProposalId
  PROVE  LET q == [p EXCEPT !.version = @ + 1, !.pack = p.proposals[id].pack,
                            !.proposals[id].status = "applied"]
         IN  /\ q \in Projection /\ Turned(p, q, id, "applied")
             /\ q.pack = p.proposals[id].pack /\ q.version = p.version + 1
<1> DEFINE x == [p.proposals EXCEPT ![id].status = "applied"]
           q == [p EXCEPT !.version = @ + 1, !.pack = p.proposals[id].pack,
                          !.proposals[id].status = "applied"]
<1>1. /\ x \in [ProposalId -> Proposal]
      /\ x[id].status = "applied" /\ SameProposal(p.proposals[id], x[id])
      /\ \A i \in ProposalId : i # id => x[i] = p.proposals[i]
  BY DEF Projection, Proposal, SameProposal, Status
<1>2. q = [p EXCEPT !.version = @ + 1, !.pack = p.proposals[id].pack, !.proposals = x]
  OBVIOUS
<1>3. p.proposals[id].pack \in Accepted /\ p.version + 1 \in Nat \ {0}
  BY DEF Projection, Proposal
<1> HIDE DEF x, q
<1>4. q = [pack |-> p.proposals[id].pack, version |-> p.version + 1, proposals |-> x]
  BY <1>2 DEF Projection
<1>5. /\ q \in Projection
      /\ q.pack = p.proposals[id].pack /\ q.version = p.version + 1 /\ q.proposals = x
  BY <1>1, <1>3, <1>4 DEF Projection
<1>6. Turned(p, q, id, "applied")
  BY <1>1, <1>5 DEF Turned
<1> QED
  BY <1>5, <1>6 DEF q

(* What an event does to a projection that knows its proposal. *)
LEMMA DecisionTurns ==
  ASSUME NEW p \in Projection, NEW id \in ProposalId,
         NEW kind \in {"approved", "rejected"}, p.proposals[id].status # "none"
  PROVE  LET q == ApplyEvent(p, Decision(kind, id))
         IN  q \in Projection /\ Turned(p, q, id, kind) /\ SameHead(p, q)
<1> DEFINE q == ApplyEvent(p, Decision(kind, id))
<1>1. q = [p EXCEPT !.proposals[id].status = kind]
  BY DEF ApplyEvent, Decision, Event
<1>2. kind \in Status
  BY DEF Status
<1> HIDE DEF q
<1> QED
  BY <1>1, <1>2, Turning DEF q

LEMMA AppliedTurns ==
  ASSUME NEW p \in Projection, NEW id \in ProposalId, p.proposals[id].status # "none"
  PROVE  LET q == ApplyEvent(p, Decision("applied", id))
         IN  /\ q \in Projection /\ Turned(p, q, id, "applied")
             /\ q.pack = p.proposals[id].pack /\ q.version = p.version + 1
<1> DEFINE q == ApplyEvent(p, Decision("applied", id))
<1>1. q = [p EXCEPT !.version = @ + 1, !.pack = p.proposals[id].pack,
                    !.proposals[id].status = "applied"]
  BY DEF ApplyEvent, Decision, Event
<1> HIDE DEF q
<1> QED
  BY <1>1, Applying DEF q

LEMMA ProposedParks ==
  ASSUME NEW p \in Projection, NEW id \in ProposalId, NEW base \in Nat,
         NEW pack \in Accepted, NEW plan \in Plans
  PROVE  LET q == ApplyEvent(p, Event("proposed", id, base, pack, plan))
         IN  /\ q \in Projection /\ Replaced(p, q, id, Parked(base, pack, plan))
             /\ SameHead(p, q)
<1> DEFINE q == ApplyEvent(p, Event("proposed", id, base, pack, plan))
<1>1. q = [p EXCEPT !.proposals[id] = Parked(base, pack, plan)]
  BY DEF ApplyEvent, Event
<1>2. Parked(base, pack, plan) \in Proposal
  BY DEF Parked, Proposal, Status
<1> HIDE DEF q
<1> QED
  BY <1>1, <1>2, Parking DEF q

-----------------------------------------------------------------------------
LEMMA SequenceOfAny ==
  ASSUME NEW S, NEW v \in Seq(S)
  PROVE  IsSequence(v)
<1>1. Len(v) \in Nat /\ DOMAIN v = 1..Len(v)
  OBVIOUS
<1>2. v \in [1..Len(v) -> Elements(v)]
  <2>1. v = [i \in 1..Len(v) |-> v[i]]
    OBVIOUS
  <2> QED
    BY <1>1, <2>1 DEF Elements
<1> QED
  BY <1>1, <1>2, SeqDef DEF IsSequence

(* The types of the core entities have sequences of values. *)
LEMMA PlainValues ==
  ASSUME NEW name, NEW default, NEW target
  PROVE  /\ IsSequence(Field(name, ScalarType(target), default).type.values)
         /\ IsSequence(Field(name, RefType(target), default).type.values)
         /\ IsSequence(Field(name, TagsType, default).type.values)
<1>1. \A t : Field(name, t, default).type = t
  BY DEF Field
<1>2. \A kind, scalar, values : Type(kind, scalar, values, target).values = values
  BY DEF Type
<1>3. IsSequence(<<>>)
  <2>1. <<>> \in Seq({})
    OBVIOUS
  <2> QED
    BY <2>1, SequenceOfAny
<1>4. \A values : Type("tags", NoName, values, NoName).values = values
  BY DEF Type
<1>5. \A values : Type("scalar", target, values, NoName).values = values
  BY DEF Type
<1>6. Field(name, ScalarType(target), default).type.values = <<>>
  BY <1>1, <1>5 DEF ScalarType
<1>7. Field(name, RefType(target), default).type.values = <<>>
  BY <1>1, <1>2 DEF RefType
<1>8. Field(name, TagsType, default).type.values = <<>>
  BY <1>1, <1>4 DEF TagsType
<1> QED
  BY <1>3, <1>6, <1>7, <1>8

(* Every field of a model comes from its source, the calendar or a         *)
(* dictionary: the values of its type are a sequence.                      *)
LEMMA ValuesAreSequences ==
  ASSUME NEW pack \in Accepted, NEW n \in DOMAIN ModelOf[pack].entities,
         NEW f \in Elements(ModelOf[pack].entities[n].fields)
  PROVE  IsSequence(f.type.values)
<1> DEFINE ast == Source(pack)
<1>1. ModelOf[pack].entities = Entities(ast)
  BY DEF ModelOf, Model, Accepted
<1>2. PICK e : e = Entities(ast)[n] /\ f \in Elements(e.fields)
  BY <1>1
<1>3. n \in DOMAIN Entities(ast)
  BY <1>1
<1>4. CASE n \in {d.name : d \in Elements(ast.entities)}
  <2>1. e = CHOOSE d \in Elements(ast.entities) : d.name = n
    BY <1>2, <1>3, <1>4 DEF Entities
  <2>2. e \in Elements(ast.entities)
    BY <2>1, <1>4
  <2> QED
    BY <2>2, <1>2, SourceAssumption
<1>5. CASE n \notin {d.name : d \in Elements(ast.entities)} /\ n = "core.Calendar"
  <2>1. e = Calendar
    BY <1>2, <1>3, <1>5 DEF Entities
  <2> DEFINE f1 == Field("code", ScalarType("string"), NoName)
             f2 == Field("name", ScalarType("string"), NoName)
             f3 == Field("workdays", MultiEnumType(<<"Mon", "Tue", "Wed", "Thu", "Fri", "Sat", "Sun">>), NoName)
             f4 == Field("work_start", ScalarType("int"), "540")
             f5 == Field("work_end", ScalarType("int"), "1080")
             f6 == Field("holidays", TagsType, NoName)
             f7 == Field("extra_workdays", TagsType, NoName)
  <2>2. Calendar.fields = <<f1, f2, f3, f4, f5, f6, f7>>
    BY DEF Calendar, Entity
  <2>3. \A g \in {f1, f2, f3, f4, f5, f6, f7} : IsSequence(g.type.values)
    <3> DEFINE days == <<"Mon", "Tue", "Wed", "Thu", "Fri", "Sat", "Sun">>
    <3>1. f3.type.values = days
      BY DEF Field, MultiEnumType, Type
    <3>2. days \in Seq({"Mon", "Tue", "Wed", "Thu", "Fri", "Sat", "Sun"})
      OBVIOUS
    <3> HIDE DEF days
    <3>3. IsSequence(days)
      BY <3>2, SequenceOfAny
    <3> QED
      BY <3>1, <3>3, PlainValues
  <2> HIDE DEF f1, f2, f3, f4, f5, f6, f7
  <2>4. f \in {f1, f2, f3, f4, f5, f6, f7}
    BY <2>1, <2>2, <1>2 DEF Elements
  <2> QED
    BY <2>3, <2>4
<1>6. CASE n \notin {d.name : d \in Elements(ast.entities)} /\ n # "core.Calendar"
  <2>1. e = Dictionary(n)
    BY <1>2, <1>3, <1>6 DEF Entities
  <2> DEFINE f1 == Field("code", ScalarType("string"), NoName)
             f2 == Field("name", ScalarType("string"), NoName)
             f3 == Field("parent", RefType(n), NoName)
             f4 == Field("active", ScalarType("bool"), "true")
  <2>2. Dictionary(n).fields = <<f1, f2, f3, f4>>
    BY DEF Dictionary, Entity
  <2>3. \A g \in {f1, f2, f3, f4} : IsSequence(g.type.values)
    BY PlainValues
  <2> HIDE DEF f1, f2, f3, f4
  <2>4. f \in {f1, f2, f3, f4}
    BY <2>1, <2>2, <1>2 DEF Elements
  <2> QED
    BY <2>3, <2>4
<1> QED
  BY <1>4, <1>5, <1>6

(* What an additive change promises to the data: every field stays with    *)
(* its type, and allows what it allowed, but for the options of an         *)
(* array[enum].                                                            *)
LEMMA AdditiveKeepsData ==
  ASSUME NEW a \in Accepted, NEW b \in Accepted, Additive(ModelOf[a], ModelOf[b])
  PROVE  KeepsData(ModelOf[a], ModelOf[b])
<1> DEFINE m == ModelOf[a]
           w == ModelOf[b]
<1> SUFFICES ASSUME NEW n \in DOMAIN m.entities, NEW name \in FieldNames(m.entities[n])
             PROVE  LET t == TypeOf(m, <<n, name>>)
                        u == TypeOf(w, <<n, name>>)
                    IN  /\ <<n, name>> \in Fields(w)
                        /\ SameType(t, u)
                        /\ t.kind # "multienum" => Legal(t) \subseteq Legal(u)
  BY DEF KeepsData, Fields
<1> DEFINE e == m.entities[n]
           d == w.entities[n]
           f == FieldOf(e, name)
           g == FieldOf(d, name)
<1>1. n \in DOMAIN w.entities /\ \A h \in Elements(e.fields) : KeepsField(h, d)
  BY DEF Additive
<1>2. f \in Elements(e.fields) /\ f.name = name
  <2>1. \E h \in Elements(e.fields) : h.name = name
    BY DEF FieldNames
  <2> QED
    BY <2>1 DEF FieldOf, FindField
<1>3. KeepsField(f, d)
  BY <1>1, <1>2
<1>4. name \in FieldNames(d)
  BY <1>2, <1>3 DEF KeepsField
<1>5. g \in Elements(d.fields)
  <2>1. \E h \in Elements(d.fields) : h.name = name
    BY <1>4 DEF FieldNames
  <2> QED
    BY <2>1 DEF FieldOf, FindField
<1>6. IsSequence(f.type.values) /\ IsSequence(g.type.values)
  BY <1>1, <1>2, <1>5, ValuesAreSequences
<1>7. SameType(f.type, g.type) /\ KeepsValues(f.type, g.type)
  BY <1>2, <1>3 DEF KeepsField
<1>8. <<n, name>> \in Fields(w)
  BY <1>1, <1>4 DEF Fields
<1>9. f.type.kind # "multienum" => Legal(f.type) \subseteq Legal(g.type)
  <2> HIDE DEF f, g
  <2>1. CASE f.type.kind = "enum"
    <3>1. Elements(f.type.values) \subseteq Elements(g.type.values)
      BY <2>1, <1>6, <1>7 DEF SameType, KeepsValues, Elements
    <3> QED
      BY <2>1, <3>1, <1>7 DEF Legal, SameType
  <2>2. CASE f.type.kind # "enum"
    BY <2>2, <1>7 DEF Legal, SameType
  <2> QED
    BY <2>1, <2>2
<1> QED
  BY <1>7, <1>8, <1>9 DEF TypeOf

LEMMA DataKept == ASSUME NEW m PROVE KeepsData(m, m)
BY DEF KeepsData, SameType

-----------------------------------------------------------------------------
(* One more event changes no decision that was made before it. *)
LEMMA DecidedBefore ==
  ASSUME NEW j \in Seq(Events), NEW e \in Events, NEW id, NEW kind,
         NEW n \in 1..(Len(j) + 1)
  PROVE  DecidedLast(j, id, n, kind) <=> DecidedLast(Append(j, e), id, n, kind)
<1>1. \A m \in 1..(n - 1) : m \in 1..Len(j)
  OBVIOUS
<1>2. \A m \in 1..(n - 1) : Append(j, e)[m] = j[m]
  BY <1>1
<1> QED
  BY <1>2 DEF DecidedLast

(* The event itself: its own decision is the last, any other keeps what    *)
(* was decided of another proposal.                                        *)
LEMMA DecidedNow ==
  ASSUME NEW j \in Seq(Events), NEW e \in Events, e.kind \in {"approved", "rejected"}
  PROVE  DecidedLast(Append(j, e), e.id, Len(Append(j, e)) + 1, e.kind)
<1>1. Len(Append(j, e)) = Len(j) + 1 /\ Len(j) \in Nat /\ Append(j, e)[Len(j) + 1] = e
  OBVIOUS
<1> QED
  BY <1>1 DEF DecidedLast

LEMMA DecidedStill ==
  ASSUME NEW j \in Seq(Events), NEW e \in Events, NEW id, NEW kind,
         e.kind \notin {"approved", "rejected"} \/ e.id # id,
         DecidedLast(j, id, Len(j) + 1, kind)
  PROVE  DecidedLast(Append(j, e), id, Len(Append(j, e)) + 1, kind)
<1>1. Len(Append(j, e)) = Len(j) + 1 /\ Len(j) \in Nat /\ Append(j, e)[Len(j) + 1] = e
  OBVIOUS
<1>2. \A m \in 1..Len(j) : Append(j, e)[m] = j[m]
  OBVIOUS
<1>3. PICK m \in 1..Len(j) :
        /\ j[m].id = id /\ j[m].kind = kind
        /\ \A k \in 1..Len(j) :
             (j[k].id = id /\ j[k].kind \in {"approved", "rejected"}) => k <= m
  BY <1>1 DEF DecidedLast
<1>4. \A k \in 1..(Len(j) + 1) : k \in 1..Len(j) \/ k = Len(j) + 1
  BY <1>1
<1> DEFINE a == Append(j, e)
<1> HIDE DEF a
<1>5. \A k \in 1..(Len(j) + 1) :
        (a[k].id = id /\ a[k].kind \in {"approved", "rejected"}) => k <= m
  BY <1>1, <1>2, <1>3, <1>4 DEF a
<1>6. a[m].id = id /\ a[m].kind = kind /\ m \in 1..(Len(j) + 1)
  BY <1>1, <1>2, <1>3 DEF a
<1>7. Len(a) + 1 - 1 = Len(j) + 1
  BY <1>1 DEF a
<1>8. DecidedLast(a, id, Len(a) + 1, kind)
  BY <1>5, <1>6, <1>7 DEF DecidedLast
<1> QED
  BY <1>8 DEF a

LEMMA LastOfDecided ==
  ASSUME NEW id, NEW n \in Nat, NEW kind \in {"approved", "rejected"},
         DecidedLast(journal, id, n, kind)
  PROVE  LastDecision(id, n) = kind
<1> DEFINE D == {m \in 1..(n - 1) :
                   journal[m].id = id /\ journal[m].kind \in {"approved", "rejected"}}
           last == CHOOSE m \in D : \A k \in D : k <= m
<1>1. PICK m \in D : journal[m].kind = kind /\ \A k \in D : k <= m
  BY DEF DecidedLast
<1>2. last \in D /\ \A k \in D : k <= last
  BY <1>1
<1>3. last = m
  BY <1>1, <1>2
<1> QED
  BY <1>1, <1>3 DEF LastDecision

-----------------------------------------------------------------------------
(* Nobody is decided on before the first event, and everything is genesis. *)
LEMMA InitHolds == Init => PipelineInv
<1> SUFFICES ASSUME Init PROVE PipelineInv
  OBVIOUS
<1>1. Start \in Projection /\ \A id \in ProposalId : Start.proposals[id].status = "none"
  <2>1. NoProposal \in Proposal
    BY GenesisAssumption DEF NoProposal, Proposal, Status, Plans
  <2>2. [id \in ProposalId |-> NoProposal] \in [ProposalId -> Proposal]
    BY <2>1
  <2> QED
    BY <2>2, GenesisAssumption DEF Start, Projection, NoProposal
<1>2. live = Start /\ replay = Start /\ journal = <<>> /\ op = Idle
  BY DEF Init
<1>3. Types
  BY <1>1, <1>2 DEF Types
<1>4. Counted
  <2>1. AppliedIn(replay) = {}
    BY <1>1, <1>2 DEF AppliedIn
  <2> QED
    BY <2>1, <1>2, FS_EmptySet DEF Counted, Start
<1>5. Behind /\ JournalExtends
  BY <1>2, DataKept DEF Behind, JournalExtends, Start
<1>6. FreshIds /\ Follows /\ Honest(live) /\ Honest(replay)
  BY <1>1, <1>2 DEF FreshIds, Follows, Honest, Ahead, Status
<1>7. GrantUnderWay
  BY <1>2 DEF GrantUnderWay, Idle, Approved
<1>8. Marked /\ Signed
  BY <1>1, <1>2 DEF Marked, Signed
<1> QED
  BY <1>3, <1>4, <1>5, <1>6, <1>7, <1>8 DEF PipelineInv

(* The next id grows with the proposals only. *)
LEMMA NextIdGrows ==
  ASSUME NEW e \in Events, journal \in Seq(Events), journal' = Append(journal, e)
  PROVE  /\ NextId \in Nat
         /\ NextId' = IF e.kind = "proposed" THEN NextId + 1 ELSE NextId
<1> DEFINE D == {n \in DOMAIN journal : journal[n].kind = "proposed"}
           n1 == Len(journal) + 1
<1>1. IsFiniteSet(D) /\ Cardinality(D) \in Nat
  <2>1. Len(journal) \in Nat /\ D \subseteq 1..Len(journal)
    OBVIOUS
  <2>2. IsFiniteSet(1..Len(journal))
    BY <2>1, FS_Interval
  <2> HIDE DEF D
  <2> QED
    BY <2>1, <2>2, FS_Subset, FS_CardinalityType
<1>2. n1 \notin D
  OBVIOUS
<1>3. /\ DOMAIN journal' = DOMAIN journal \cup {n1}
      /\ journal'[n1] = e /\ \A n \in DOMAIN journal : journal'[n] = journal[n]
  OBVIOUS
<1>4. D' = IF e.kind = "proposed" THEN D \cup {n1} ELSE D
  BY <1>3
<1>5. Cardinality(D \cup {n1}) = Cardinality(D) + 1
  <2> HIDE DEF D, n1
  <2> QED
    BY <1>1, <1>2, FS_AddElement
<1>6. NextId = 1 + Cardinality(D) /\ NextId' = 1 + Cardinality(D')
  BY DEF NextId
<1> HIDE DEF D, n1
<1> QED
  BY <1>1, <1>4, <1>5, <1>6

(* Nothing of the pipeline changed, or a grant was given up. *)
LEMMA SamePipeline ==
  ASSUME PipelineInv, UNCHANGED <<journal, live, replay>>, op' = op \/ op' = Idle
  PROVE  PipelineInv'
<1>1. Types'
  BY DEF PipelineInv, Types
<1>2. Counted' /\ Behind' /\ FreshIds' /\ Follows' /\ JournalExtends' /\ Marked' /\ Signed'
  BY DEF PipelineInv, Counted, Behind, FreshIds, NextId, Follows, JournalExtends, Marked, Signed
<1>3. Honest(live)' /\ Honest(replay)'
  BY DEF PipelineInv
<1>4. GrantUnderWay'
  <2>1. \A id \in ProposalId : Idle # Approved(id)
    BY DEF Idle, Approved
  <2>2. \A id \in ProposalId : HonestAbout(live, id)' <=> HonestAbout(live, id)
    BY DEF HonestAbout, Running
  <2> QED
    BY <2>1, <2>2 DEF PipelineInv, GrantUnderWay
<1> QED
  BY <1>1, <1>2, <1>3, <1>4 DEF PipelineInv

(* An event that applies nothing takes no signature away. *)
LEMMA SignedBefore ==
  ASSUME Signed, journal \in Seq(Events), NEW e \in Events, journal' = Append(journal, e),
         \A k \in ProposalId : replay.proposals[k].status = "applied" =>
                               replay'.proposals[k].status = "applied",
         NEW n \in DOMAIN journal, journal'[n].kind = "applied"
  PROVE  /\ replay'.proposals[journal'[n].id].status = "applied"
         /\ DecidedLast(journal', journal'[n].id, n, "approved")
         /\ \A m \in 1..(n - 1) :
              journal'[m].kind = "applied" => journal'[m].id # journal'[n].id
<1>1. n \in 1..(Len(journal) + 1) /\ Len(journal) \in Nat /\ n \in 1..Len(journal)
  OBVIOUS
<1>2. \A m \in 1..Len(journal) : journal'[m] = journal[m]
  OBVIOUS
<1>3. journal'[n] = journal[n] /\ \A m \in 1..(n - 1) : journal'[m] = journal[m]
  BY <1>1, <1>2
<1>4. journal[n].id \in ProposalId
  <2>1. journal[n] \in Events
    BY <1>1
  <2> QED
    BY <2>1 DEF Events
<1>5. /\ replay.proposals[journal[n].id].status = "applied"
      /\ DecidedLast(journal, journal[n].id, n, "approved")
      /\ \A m \in 1..(n - 1) : journal[m].kind = "applied" => journal[m].id # journal[n].id
  BY <1>3 DEF Signed
<1> QED
  BY <1>1, <1>3, <1>4, <1>5, DecidedBefore

LEMMA SignedStill ==
  ASSUME Signed, journal \in Seq(Events), NEW e \in Events, journal' = Append(journal, e),
         e.kind # "applied",
         \A k \in ProposalId : replay.proposals[k].status = "applied" =>
                               replay'.proposals[k].status = "applied"
  PROVE  Signed'
<1> SUFFICES ASSUME NEW n \in DOMAIN journal', journal'[n].kind = "applied"
             PROVE  /\ replay'.proposals[journal'[n].id].status = "applied"
                    /\ DecidedLast(journal', journal'[n].id, n, "approved")
                    /\ \A m \in 1..(n - 1) :
                         journal'[m].kind = "applied" => journal'[m].id # journal'[n].id
  BY DEF Signed
<1>1. n \in DOMAIN journal
  OBVIOUS
<1> QED
  BY <1>1, SignedBefore

-----------------------------------------------------------------------------
(* A proposal is stored, and parked unless the answer was lost. *)
LEMMA ProposeStep ==
  ASSUME PipelineInv, NEW pack \in Accepted, NEW id \in ProposalId, id = NextId,
         op = Idle, op' = op, Additive(Running(live), ModelOf[pack]),
         NEW plan, plan = Plan(Running(live), ModelOf[pack]),
         Stored(Event("proposed", id, live.version, pack, plan)),
         \/ live' = live
         \/ live' = [live EXCEPT !.proposals[id] = Parked(live.version, pack, plan)]
  PROVE  PipelineInv'
<1> DEFINE e == Event("proposed", id, live.version, pack, plan)
           x == Parked(live.version, pack, plan)
<1> USE DEF PipelineInv
<1>1. /\ live \in Projection /\ replay \in Projection /\ journal \in Seq(Events)
      /\ live.version \in Nat /\ replay.version \in Nat
  BY DEF Types, Projection
<1>2. plan \in Plans
  BY <1>1 DEF Plans, Running, Projection, Accepted
<1>3. e \in Events /\ e.kind = "proposed" /\ e.id = id
  BY <1>1, <1>2 DEF Event, Events, Kinds
<1>4. /\ x \in Proposal /\ x.status = "pending" /\ x.base = live.version
      /\ x.pack = pack /\ x.plan = plan
  BY <1>1, <1>2 DEF Parked, Proposal, Status
<1>5. journal' = Append(journal, e) /\ replay' = ApplyEvent(replay, e)
  BY DEF Stored
<1> HIDE DEF e
<1>6. /\ replay' \in Projection /\ Replaced(replay, replay', id, x)
      /\ SameHead(replay, replay')
  BY <1>1, <1>2, <1>5, ProposedParks DEF e
<1>7. /\ live' \in Projection /\ SameHead(live, live')
      /\ live' = live \/ Replaced(live, live', id, x)
  <2>1. CASE live' = live
    BY <2>1, <1>1 DEF SameHead
  <2>2. CASE live' = [live EXCEPT !.proposals[id] = x]
    BY <2>2, <1>1, <1>4, Parking
  <2> QED
    BY <2>1, <2>2
<1> HIDE DEF x
<1>8. live.proposals[id].status = "none" /\ replay.proposals[id].status = "none"
  <2>1. id \in Nat
    BY ProposalsAssumption DEF ProposalId
  <2> QED
    BY <2>1 DEF FreshIds
<1>9. Types'
  BY <1>1, <1>3, <1>5, <1>6, <1>7 DEF Types
<1>10. Counted'
  <2>1. AppliedIn(replay)' = AppliedIn(replay)
    BY <1>4, <1>6, <1>8 DEF AppliedIn, Replaced
  <2> QED
    BY <2>1, <1>6 DEF Counted, SameHead
<1>11. Behind' /\ JournalExtends'
  BY <1>6, <1>7 DEF Behind, JournalExtends, SameHead, Running
<1>12. FreshIds'
  <2>1. NextId' = id + 1 /\ id \in Nat /\ ProposalId \subseteq Nat
    BY <1>1, <1>3, <1>5, NextIdGrows, ProposalsAssumption DEF ProposalId
  <2> SUFFICES ASSUME NEW k \in ProposalId, k >= NextId'
               PROVE  /\ live'.proposals[k].status = "none"
                      /\ replay'.proposals[k].status = "none"
    BY DEF FreshIds
  <2>2. k # id /\ k >= NextId
    BY <2>1
  <2>3. live.proposals[k].status = "none" /\ replay.proposals[k].status = "none"
    BY <2>2 DEF FreshIds
  <2> QED
    BY <2>2, <2>3, <1>6, <1>7 DEF Replaced
<1>13. Follows'
  <2> SUFFICES ASSUME NEW k \in ProposalId
               PROVE  /\ replay'.proposals[k].status \in Ahead(live'.proposals[k].status)
                      /\ live'.proposals[k].status # "none" =>
                           SameProposal(live'.proposals[k], replay'.proposals[k])
    BY DEF Follows
  <2>1. CASE k # id
    BY <2>1, <1>6, <1>7 DEF Follows, Replaced
  <2>2. CASE k = id
    BY <2>2, <1>4, <1>6, <1>7, <1>8 DEF Replaced, Ahead, Status, SameProposal
  <2> QED
    BY <2>1, <2>2
<1>14. HonestAbout(live, id)' \/ live' = live
  BY <1>4, <1>7 DEF HonestAbout, Replaced, Running, SameHead
<1>15. Honest(live)'
  <2> SUFFICES ASSUME NEW k \in ProposalId, live'.proposals[k].status = "pending"
               PROVE  /\ live'.proposals[k].base <= live'.version
                      /\ live'.proposals[k].base = live'.version => HonestAbout(live', k)
    BY DEF Honest
  <2>1. CASE k = id
    BY <2>1, <1>1, <1>4, <1>7, <1>8, <1>14 DEF Replaced, SameHead, HonestAbout, Running
  <2>2. CASE k # id
    <3>1. live'.proposals[k] = live.proposals[k]
      BY <2>2, <1>7 DEF Replaced
    <3> QED
      BY <3>1, <1>7 DEF Honest, HonestAbout, Running, SameHead
  <2> QED
    BY <2>1, <2>2
<1>16. Honest(replay)'
  <2> SUFFICES ASSUME NEW k \in ProposalId, replay'.proposals[k].status = "pending"
               PROVE  /\ replay'.proposals[k].base <= replay'.version
                      /\ replay'.proposals[k].base = replay'.version => HonestAbout(replay', k)
    BY DEF Honest
  <2>1. CASE k = id
    BY <2>1, <1>1, <1>4, <1>6 DEF Replaced, SameHead, HonestAbout, Running, Behind
  <2>2. CASE k # id
    <3>1. replay'.proposals[k] = replay.proposals[k]
      BY <2>2, <1>6 DEF Replaced
    <3> QED
      BY <3>1, <1>6 DEF Honest, HonestAbout, Running, SameHead
  <2> QED
    BY <2>1, <2>2
<1>17. GrantUnderWay'
  BY DEF GrantUnderWay, Idle, Approved
<1>18. Marked'
  <2> SUFFICES ASSUME NEW k \in ProposalId,
                      replay'.proposals[k].status \in {"approved", "rejected"}
               PROVE  DecidedLast(journal', k, Len(journal') + 1, replay'.proposals[k].status)
    BY DEF Marked
  <2>1. replay'.proposals[k] = replay.proposals[k]
    BY <1>4, <1>6 DEF Replaced
  <2>2. DecidedLast(journal, k, Len(journal) + 1, replay.proposals[k].status)
    BY <2>1 DEF Marked
  <2> QED
    BY <2>1, <2>2, <1>1, <1>3, <1>5, DecidedStill
<1>19. Signed'
  <2>1. \A k \in ProposalId : replay.proposals[k].status = "applied" =>
                                replay'.proposals[k].status = "applied"
    BY <1>6, <1>8 DEF Replaced
  <2> QED
    BY <2>1, <1>1, <1>3, <1>5, SignedStill
<1> QED
  BY <1>9, <1>10, <1>11, <1>12, <1>13, <1>15, <1>16, <1>17, <1>18, <1>19

-----------------------------------------------------------------------------
(* A decision is stored, and marked unless the answer was lost; a grant    *)
(* that was heard goes on.                                                 *)
LEMMA DecideStep ==
  ASSUME PipelineInv, NEW id \in ProposalId, NEW kind \in {"approved", "rejected"},
         Decidable(id), Stored(Decision(kind, id)),
         \/ live' = live /\ op' = op
         \/ /\ live' = [live EXCEPT !.proposals[id].status = kind]
            /\ op' = op \/ (kind = "approved" /\ op' = Approved(id))
  PROVE  PipelineInv'
<1> DEFINE e == Decision(kind, id)
<1> USE DEF PipelineInv
<1>1. /\ live \in Projection /\ replay \in Projection /\ journal \in Seq(Events)
      /\ live.version \in Nat /\ replay.version \in Nat
  BY DEF Types, Projection
<1>2. op = Idle /\ live.proposals[id].status = "pending" /\ HonestAbout(live, id)
  BY DEF Decidable, Honest
<1>3. e \in Events /\ e.kind = kind /\ e.id = id /\ kind \in Status
  BY GenesisAssumption DEF Decision, Event, Events, Kinds, Plans, Status
<1>4. journal' = Append(journal, e) /\ replay' = ApplyEvent(replay, e)
  BY DEF Stored
<1>5. /\ replay.proposals[id].status \in {"pending", "approved", "rejected"}
      /\ SameProposal(live.proposals[id], replay.proposals[id])
  BY <1>2 DEF Follows, Ahead
<1>6. replay' \in Projection /\ Turned(replay, replay', id, kind) /\ SameHead(replay, replay')
  BY <1>1, <1>4, <1>5, DecisionTurns
<1>7. /\ live' \in Projection /\ SameHead(live, live')
      /\ \/ live' = live /\ op' = op
         \/ /\ Turned(live, live', id, kind)
            /\ op' = op \/ (kind = "approved" /\ op' = Approved(id))
  <2>1. CASE live' = live /\ op' = op
    BY <2>1, <1>1 DEF SameHead
  <2>2. CASE /\ live' = [live EXCEPT !.proposals[id].status = kind]
             /\ op' = op \/ (kind = "approved" /\ op' = Approved(id))
    BY <2>2, <1>1, <1>3, Turning
  <2> QED
    BY <2>1, <2>2
<1> HIDE DEF e
<1>8. Types'
  BY <1>1, <1>2, <1>3, <1>4, <1>6, <1>7 DEF Types
<1>9. Counted'
  <2>1. AppliedIn(replay)' = AppliedIn(replay)
    BY <1>5, <1>6 DEF AppliedIn, Turned
  <2> QED
    BY <2>1, <1>6 DEF Counted, SameHead
<1>10. Behind' /\ JournalExtends'
  BY <1>6, <1>7 DEF Behind, JournalExtends, SameHead, Running
<1>11. FreshIds'
  <2>1. NextId' = NextId
    BY <1>1, <1>3, <1>4, NextIdGrows
  <2>2. id < NextId
    <3>1. NextId \in Nat /\ id \in Nat
      BY <1>1, <1>3, <1>4, NextIdGrows, ProposalsAssumption DEF ProposalId
    <3> QED
      BY <3>1, <1>2 DEF FreshIds
  <2> SUFFICES ASSUME NEW k \in ProposalId, k >= NextId
               PROVE  /\ live'.proposals[k].status = "none"
                      /\ replay'.proposals[k].status = "none"
    BY <2>1 DEF FreshIds
  <2>3. k # id
    <3>1. NextId \in Nat /\ id \in Nat
      BY <1>1, <1>3, <1>4, NextIdGrows, ProposalsAssumption DEF ProposalId
    <3> QED
      BY <2>2, <3>1
  <2> QED
    BY <2>3, <1>6, <1>7 DEF Turned, FreshIds
<1>12. Follows'
  <2> SUFFICES ASSUME NEW k \in ProposalId
               PROVE  /\ replay'.proposals[k].status \in Ahead(live'.proposals[k].status)
                      /\ live'.proposals[k].status # "none" =>
                           SameProposal(live'.proposals[k], replay'.proposals[k])
    BY DEF Follows
  <2>1. CASE k # id
    BY <2>1, <1>6, <1>7 DEF Follows, Turned
  <2>2. CASE k = id
    <3>1. SameProposal(live'.proposals[id], replay'.proposals[id])
      BY <1>5, <1>6, <1>7 DEF Turned, SameProposal
    <3>2. replay'.proposals[id].status = kind
      BY <1>6 DEF Turned
    <3>3. live'.proposals[id].status \in {"pending", kind}
      BY <1>2, <1>7 DEF Turned
    <3> QED
      BY <2>2, <3>1, <3>2, <3>3 DEF Ahead
  <2> QED
    BY <2>1, <2>2
<1>13. Honest(live)'
  <2> SUFFICES ASSUME NEW k \in ProposalId, live'.proposals[k].status = "pending"
               PROVE  /\ live'.proposals[k].base <= live'.version
                      /\ live'.proposals[k].base = live'.version => HonestAbout(live', k)
    BY DEF Honest
  <2>1. live'.proposals[k] = live.proposals[k]
    BY <1>7 DEF Turned
  <2> QED
    BY <2>1, <1>7 DEF Honest, HonestAbout, Running, SameHead
<1>14. Honest(replay)'
  <2> SUFFICES ASSUME NEW k \in ProposalId, replay'.proposals[k].status = "pending"
               PROVE  /\ replay'.proposals[k].base <= replay'.version
                      /\ replay'.proposals[k].base = replay'.version => HonestAbout(replay', k)
    BY DEF Honest
  <2>1. replay'.proposals[k] = replay.proposals[k]
    BY <1>6 DEF Turned
  <2> QED
    BY <2>1, <1>6 DEF Honest, HonestAbout, Running, SameHead
<1>15. GrantUnderWay'
  <2> SUFFICES ASSUME NEW k \in ProposalId, op' = Approved(k)
               PROVE  /\ live'.proposals[k].status = "approved"
                      /\ replay'.proposals[k].status = "approved"
                      /\ HonestAbout(live', k)
    BY DEF GrantUnderWay
  <2>1. Idle # Approved(k)
    BY DEF Idle, Approved
  <2>2. kind = "approved" /\ op' = Approved(id) /\ Turned(live, live', id, kind)
    BY <2>1, <1>2, <1>7
  <2>3. k = id
    BY <2>2 DEF Approved
  <2>4. HonestAbout(live', id)
    BY <2>2, <1>2, <1>7 DEF HonestAbout, Running, Turned, SameHead, SameProposal
  <2> QED
    BY <2>2, <2>3, <2>4, <1>6 DEF Turned
<1>16. Marked'
  <2> SUFFICES ASSUME NEW k \in ProposalId,
                      replay'.proposals[k].status \in {"approved", "rejected"}
               PROVE  DecidedLast(journal', k, Len(journal') + 1, replay'.proposals[k].status)
    BY DEF Marked
  <2>1. CASE k = id
    BY <2>1, <1>1, <1>3, <1>4, <1>6, DecidedNow DEF Turned
  <2>2. CASE k # id
    <3>1. replay'.proposals[k] = replay.proposals[k]
      BY <2>2, <1>6 DEF Turned
    <3>2. DecidedLast(journal, k, Len(journal) + 1, replay.proposals[k].status)
      BY <3>1 DEF Marked
    <3> QED
      BY <2>2, <3>1, <3>2, <1>1, <1>3, <1>4, DecidedStill
  <2> QED
    BY <2>1, <2>2
<1>17. Signed'
  <2>1. \A k \in ProposalId : replay.proposals[k].status = "applied" =>
                                replay'.proposals[k].status = "applied"
    BY <1>5, <1>6 DEF Turned
  <2>2. e.kind # "applied"
    BY <1>3
  <2> QED
    BY <2>1, <2>2, <1>1, <1>3, <1>4, SignedStill
<1> QED
  BY <1>8, <1>9, <1>10, <1>11, <1>12, <1>13, <1>14, <1>15, <1>16, <1>17

-----------------------------------------------------------------------------
(* The second append of a grant is stored; memory swaps its definition     *)
(* unless the answer was lost.                                             *)
LEMMA ApplyStep ==
  ASSUME PipelineInv, NEW id \in ProposalId, op = Approved(id), op' = Idle,
         Stored(Decision("applied", id)),
         \/ live' = live
         \/ live' = [live EXCEPT !.version = @ + 1, !.pack = live.proposals[id].pack,
                                 !.proposals[id].status = "applied"]
  PROVE  PipelineInv'
<1> DEFINE e == Decision("applied", id)
           new == live.proposals[id].pack
<1> USE DEF PipelineInv
<1>1. /\ live \in Projection /\ replay \in Projection /\ journal \in Seq(Events)
      /\ live.version \in Nat /\ replay.version \in Nat
  BY DEF Types, Projection
<1>2. /\ live.proposals[id].status = "approved" /\ replay.proposals[id].status = "approved"
      /\ HonestAbout(live, id)
  BY DEF GrantUnderWay
<1>3. e \in Events /\ e.kind = "applied" /\ e.id = id
  BY GenesisAssumption DEF Decision, Event, Events, Kinds, Plans
<1>4. journal' = Append(journal, e) /\ replay' = ApplyEvent(replay, e)
  BY DEF Stored
<1>5. SameProposal(live.proposals[id], replay.proposals[id])
  BY <1>2 DEF Follows
<1>6. /\ replay' \in Projection /\ Turned(replay, replay', id, "applied")
      /\ replay'.pack = new /\ replay'.version = replay.version + 1
  BY <1>1, <1>2, <1>4, <1>5, AppliedTurns DEF SameProposal
<1>7. /\ live' \in Projection
      /\ \/ live' = live
         \/ /\ Turned(live, live', id, "applied")
            /\ live'.pack = new /\ live'.version = live.version + 1
  <2>1. CASE live' = live
    BY <2>1, <1>1
  <2>2. CASE live' = [live EXCEPT !.version = @ + 1, !.pack = live.proposals[id].pack,
                                  !.proposals[id].status = "applied"]
    BY <2>2, <1>1, Applying
  <2> QED
    BY <2>1, <2>2
<1> HIDE DEF e, new
<1>8. Types'
  BY <1>1, <1>3, <1>4, <1>6, <1>7 DEF Types
<1>9. Counted'
  <2> DEFINE A == AppliedIn(replay)
             B == AppliedIn(replay')
  <2>1. id \notin A /\ B = A \cup {id} /\ A \subseteq ProposalId
    BY <1>2, <1>6 DEF AppliedIn, Turned
  <2>2. IsFiniteSet(ProposalId)
    BY ProposalsAssumption, FS_Interval DEF ProposalId
  <2> HIDE DEF A, B
  <2>3. IsFiniteSet(A) /\ Cardinality(A) \in Nat
    BY <2>1, <2>2, FS_Subset, FS_CardinalityType
  <2>4. Cardinality(B) = Cardinality(A) + 1
    BY <2>1, <2>3, FS_AddElement
  <2>5. replay.version = 1 + Cardinality(A)
    BY DEF Counted, A
  <2>6. replay'.version = 1 + Cardinality(B)
    BY <2>3, <2>4, <2>5, <1>6
  <2> QED
    BY <2>6 DEF Counted, B
<1>10. Behind'
  BY <1>1, <1>6, <1>7 DEF Behind
<1>11. FreshIds'
  <2>1. NextId' = NextId
    BY <1>1, <1>3, <1>4, NextIdGrows
  <2> SUFFICES ASSUME NEW k \in ProposalId, k >= NextId
               PROVE  /\ live'.proposals[k].status = "none"
                      /\ replay'.proposals[k].status = "none"
    BY <2>1 DEF FreshIds
  <2>2. live.proposals[k].status = "none" /\ replay.proposals[k].status = "none"
    BY DEF FreshIds
  <2> QED
    BY <2>2, <1>2, <1>6, <1>7 DEF Turned
<1>12. Follows'
  <2> SUFFICES ASSUME NEW k \in ProposalId
               PROVE  /\ replay'.proposals[k].status \in Ahead(live'.proposals[k].status)
                      /\ live'.proposals[k].status # "none" =>
                           SameProposal(live'.proposals[k], replay'.proposals[k])
    BY DEF Follows
  <2>1. CASE k # id
    BY <2>1, <1>6, <1>7 DEF Follows, Turned
  <2>2. CASE k = id
    <3>1. SameProposal(live'.proposals[id], replay'.proposals[id])
      BY <1>5, <1>6, <1>7 DEF Turned, SameProposal
    <3>2. replay'.proposals[id].status = "applied"
      BY <1>6 DEF Turned
    <3>3. live'.proposals[id].status \in {"approved", "applied"}
      BY <1>2, <1>7 DEF Turned
    <3> QED
      BY <2>2, <3>1, <3>2, <3>3 DEF Ahead
  <2> QED
    BY <2>1, <2>2
<1>13. Honest(live)'
  <2> SUFFICES ASSUME NEW k \in ProposalId, live'.proposals[k].status = "pending"
               PROVE  /\ live'.proposals[k].base <= live'.version
                      /\ live'.proposals[k].base = live'.version => HonestAbout(live', k)
    BY DEF Honest
  <2>1. CASE live' = live
    BY <2>1 DEF Honest
  <2>2. CASE Turned(live, live', id, "applied") /\ live'.version = live.version + 1
    <3>1. live'.proposals[k] = live.proposals[k]
      BY <2>2 DEF Turned
    <3>2. live.proposals[k].base <= live.version /\ live.proposals[k].base \in Nat
      BY <3>1, <1>1 DEF Honest, Projection, Proposal
    <3> QED
      BY <3>1, <3>2, <2>2, <1>1
  <2> QED
    BY <2>1, <2>2, <1>7
<1>14. Honest(replay)'
  <2> SUFFICES ASSUME NEW k \in ProposalId, replay'.proposals[k].status = "pending"
               PROVE  /\ replay'.proposals[k].base <= replay'.version
                      /\ replay'.proposals[k].base = replay'.version => HonestAbout(replay', k)
    BY DEF Honest
  <2>1. replay'.proposals[k] = replay.proposals[k]
    BY <1>6 DEF Turned
  <2>2. replay.proposals[k].base <= replay.version /\ replay.proposals[k].base \in Nat
    BY <2>1, <1>1 DEF Honest, Projection, Proposal
  <2> QED
    BY <2>1, <2>2, <1>1, <1>6
<1>15. GrantUnderWay'
  BY DEF GrantUnderWay, Idle, Approved
<1>16. JournalExtends'
  <2>1. CASE live' = live
    <3>1. live.pack \in Accepted /\ new \in Accepted
      BY <1>1 DEF Projection, Proposal, new
    <3>2. KeepsData(ModelOf[live.pack], ModelOf[new])
      BY <3>1, <1>2, AdditiveKeepsData DEF HonestAbout, Running, new
    <3> QED
      BY <2>1, <3>2, <1>6 DEF JournalExtends, Running
  <2>2. CASE live'.pack = new
    BY <2>2, <1>6, DataKept DEF JournalExtends, Running
  <2> QED
    BY <2>1, <2>2, <1>7
<1>17. Marked'
  <2> SUFFICES ASSUME NEW k \in ProposalId,
                      replay'.proposals[k].status \in {"approved", "rejected"}
               PROVE  DecidedLast(journal', k, Len(journal') + 1, replay'.proposals[k].status)
    BY DEF Marked
  <2>1. replay'.proposals[k] = replay.proposals[k]
    BY <1>6 DEF Turned
  <2>2. DecidedLast(journal, k, Len(journal) + 1, replay.proposals[k].status)
    BY <2>1 DEF Marked
  <2>3. e.kind \notin {"approved", "rejected"}
    BY <1>3
  <2> QED
    BY <2>1, <2>2, <2>3, <1>1, <1>3, <1>4, DecidedStill
<1>18. Signed'
  <2>1. \A k \in ProposalId : replay.proposals[k].status = "applied" =>
                                replay'.proposals[k].status = "applied"
    BY <1>6 DEF Turned
  <2> SUFFICES ASSUME NEW n \in DOMAIN journal', journal'[n].kind = "applied"
               PROVE  /\ replay'.proposals[journal'[n].id].status = "applied"
                      /\ DecidedLast(journal', journal'[n].id, n, "approved")
                      /\ \A m \in 1..(n - 1) :
                           journal'[m].kind = "applied" => journal'[m].id # journal'[n].id
    BY DEF Signed
  <2>2. CASE n \in DOMAIN journal
    BY <2>1, <2>2, <1>1, <1>3, <1>4, SignedBefore
  <2>3. CASE n \notin DOMAIN journal
    <3>1. n = Len(journal) + 1 /\ Len(journal) \in Nat /\ journal'[n] = e
      BY <2>3, <1>1, <1>3, <1>4
    <3>2. DecidedLast(journal, id, Len(journal) + 1, "approved")
      BY <1>2 DEF Marked
    <3>3. Len(journal) + 1 \in 1..(Len(journal) + 1)
      BY <3>1
    <3>4. DecidedLast(journal', id, n, "approved")
      BY <3>1, <3>2, <3>3, <1>1, <1>3, <1>4, DecidedBefore
    <3>5. \A m \in 1..(n - 1) :
            m \in DOMAIN journal /\ journal'[m] = journal[m]
      BY <3>1, <1>1, <1>3, <1>4
    <3>6. \A m \in 1..(n - 1) : journal'[m].kind = "applied" => journal'[m].id # id
      BY <3>5, <1>2 DEF Signed
    <3> QED
      BY <3>1, <3>4, <3>6, <1>3, <1>6 DEF Turned
  <2> QED
    BY <2>2, <2>3
<1> QED
  BY <1>8, <1>9, <1>10, <1>11, <1>12, <1>13, <1>14, <1>15, <1>16, <1>17, <1>18

(* A restart brings memory to its journal. *)
LEMMA RestartStep ==
  ASSUME PipelineInv, Restart
  PROVE  PipelineInv'
<1> USE DEF PipelineInv, Restart
<1>1. live' = replay /\ replay' = replay /\ journal' = journal /\ op' = Idle
  OBVIOUS
<1>2. Types'
  BY <1>1 DEF Types
<1>3. Counted' /\ Behind' /\ JournalExtends' /\ Marked' /\ Signed'
  <2>1. Behind' /\ JournalExtends'
    BY <1>1, DataKept DEF Behind, JournalExtends, Types, Projection
  <2> QED
    BY <2>1, <1>1 DEF Counted, Marked, Signed
<1>4. FreshIds'
  BY <1>1 DEF FreshIds, NextId
<1>5. Follows'
  <2>1. \A id \in ProposalId : replay.proposals[id].status \in Status
    BY DEF Types, Projection, Proposal
  <2> QED
    BY <1>1, <2>1 DEF Follows, Ahead, Status, SameProposal
<1>6. Honest(live)' /\ Honest(replay)'
  BY <1>1
<1>7. GrantUnderWay'
  BY <1>1 DEF GrantUnderWay, Idle, Approved
<1> QED
  BY <1>2, <1>3, <1>4, <1>5, <1>6, <1>7

(* An append that fails leaves everything, or stores the event alone.      *)
LEMMA PipelineInvHolds == PipelineInv /\ [Next]_vars => PipelineInv'
<1> SUFFICES ASSUME PipelineInv, [Next]_vars PROVE PipelineInv'
  OBVIOUS
<1>1. ASSUME NEW pack \in Pack, ProposeChange(pack) PROVE PipelineInv'
  <2> DEFINE plan == Plan(Running(live), ModelOf[pack])
             id == NextId
  <2>1. CASE Stored(Event("proposed", id, live.version, pack, plan))
    <3> HIDE DEF plan
    <3>1. plan = Plan(Running(live), ModelOf[pack])
      BY DEF plan
    <3> QED
      BY <2>1, <3>1, <1>1, ProposeStep DEF ProposeChange, Fails, Lost, Refused, plan
  <2>2. CASE UNCHANGED <<journal, replay>> /\ live' = live /\ op' = op
    BY <2>2, SamePipeline
  <2> QED
    BY <2>1, <2>2, <1>1 DEF ProposeChange, Fails, Lost, Refused
<1>2. ASSUME NEW id \in ProposalId, Reject(id) PROVE PipelineInv'
  <2>1. CASE Stored(Decision("rejected", id))
    BY <2>1, <1>2, DecideStep DEF Reject, Fails, Lost, Refused
  <2>2. CASE UNCHANGED <<journal, replay>> /\ live' = live /\ op' = op
    BY <2>2, SamePipeline
  <2> QED
    BY <2>1, <2>2, <1>2 DEF Reject, Fails, Lost, Refused
<1>3. ASSUME NEW id \in ProposalId, Grant(id) PROVE PipelineInv'
  <2>1. CASE Stored(Decision("approved", id))
    BY <2>1, <1>3, DecideStep DEF Grant, Fails, Lost, Refused
  <2>2. CASE UNCHANGED <<journal, replay>> /\ live' = live /\ op' = op
    BY <2>2, SamePipeline
  <2> QED
    BY <2>1, <2>2, <1>3 DEF Grant, Fails, Lost, Refused
<1>4. ASSUME Apply PROVE PipelineInv'
  <2>1. PICK id \in ProposalId : op = Approved(id)
    <3>1. op.at = "approved" /\ op \in {Idle} \cup {Approved(k) : k \in ProposalId}
      BY <1>4 DEF Apply, PipelineInv, Types
    <3> QED
      BY <3>1 DEF Idle, Approved
  <2>2. op.id = id
    BY <2>1 DEF Approved
  <2>3. CASE Stored(Decision("applied", id))
    BY <2>1, <2>2, <2>3, <1>4, ApplyStep DEF Apply, Fails, Lost, Refused
  <2>4. CASE UNCHANGED <<journal, replay>> /\ live' = live /\ op' = Idle
    BY <2>4, SamePipeline
  <2> QED
    BY <2>2, <2>3, <2>4, <1>4 DEF Apply, Fails, Lost, Refused
<1>5. ASSUME Restart PROVE PipelineInv'
  BY <1>5, RestartStep
<1>6. CASE UNCHANGED vars
  BY <1>6, SamePipeline DEF vars
<1> QED
  BY <1>1, <1>2, <1>3, <1>4, <1>5, <1>6 DEF Next

(* How far the journal may be ahead of memory about each proposal and the  *)
(* running definition, and that every pending plan on the running number   *)
(* is honest (proposals.go).                                               *)
THEOREM PipelineIsSafe == Spec => []PipelineInv
BY InitHolds, PipelineInvHolds, PTL DEF Spec

-----------------------------------------------------------------------------
(* The shape of the state; the number of a definition never exceeds the    *)
(* proposals there are.                                                    *)
LEMMA TypesHold == PipelineInv => TypeOK
<1> SUFFICES ASSUME PipelineInv PROVE TypeOK
  OBVIOUS
<1>1. /\ live \in Projection /\ replay \in Projection
      /\ op \in {Idle} \cup {Approved(id) : id \in ProposalId}
  BY DEF PipelineInv, Types
<1>2. replay.version <= MaxProposals + 1 /\ MaxProposals \in Nat
  <2> DEFINE A == AppliedIn(replay)
  <2>1. A \subseteq ProposalId
    BY DEF AppliedIn
  <2>2. IsFiniteSet(ProposalId) /\ Cardinality(ProposalId) = MaxProposals
    BY ProposalsAssumption, FS_Interval DEF ProposalId
  <2> HIDE DEF A
  <2>3. Cardinality(A) <= MaxProposals /\ Cardinality(A) \in Nat
    BY <2>1, <2>2, FS_Subset, FS_CardinalityType
  <2>4. replay.version = 1 + Cardinality(A)
    BY DEF PipelineInv, Counted, A
  <2> QED
    BY <2>3, <2>4, ProposalsAssumption
<1>3. live.version \in Nat \ {0} /\ replay.version \in Nat \ {0}
  BY <1>1 DEF Projection
<1>4. \A p \in {live, replay} :
        /\ p.pack \in Pack /\ DOMAIN p.proposals = ProposalId
        /\ \A id \in ProposalId : p.proposals[id].status \in Status
  BY <1>1 DEF Projection, Proposal, Accepted
<1>5. live.version \in 1..(MaxProposals + 1) /\ replay.version \in 1..(MaxProposals + 1)
  BY <1>2, <1>3 DEF PipelineInv, Behind
<1>6. op # Idle => live.proposals[op.id].status = "approved"
  <2> SUFFICES ASSUME op # Idle PROVE live.proposals[op.id].status = "approved"
    OBVIOUS
  <2>1. PICK id \in ProposalId : op = Approved(id)
    BY <1>1
  <2> QED
    BY <2>1 DEF PipelineInv, GrantUnderWay, Approved
<1> QED
  BY <1>1, <1>4, <1>5, <1>6 DEF TypeOK

(* The shape of the state (proposals.go, Proposal).                        *)
THEOREM TypeCorrect == Spec => []TypeOK
BY PipelineIsSafe, TypesHold, PTL

(* Without lost answers memory and journal never part: every write makes   *)
(* in memory what the fold of its event makes (engine.go, applyEvent).     *)
LEMMA ParallelHolds ==
  PipelineInv /\ ReplayRestores /\ [Next]_vars => ReplayRestores'
<1> SUFFICES ASSUME PipelineInv, unheard = {} => live = replay, [Next]_vars, unheard' = {}
             PROVE  live' = replay'
  BY DEF ReplayRestores
<1>1. \A e : ~Lost(e)
  BY DEF Lost
<1>2. ASSUME NEW pack \in Pack, ProposeChange(pack) PROVE live' = replay'
  BY <1>1, <1>2 DEF ProposeChange, Fails, Refused, Stored, ApplyEvent, Event
<1>3. ASSUME NEW id \in ProposalId, NEW kind \in {"approved", "rejected"}, Decidable(id),
             Stored(Decision(kind, id)), UNCHANGED unheard,
             live' = [live EXCEPT !.proposals[id].status = kind]
      PROVE  live' = replay'
  BY <1>3 DEF Decidable, Stored, ApplyEvent, Decision, Event
<1>4. ASSUME NEW id \in ProposalId, Reject(id) PROVE live' = replay'
  BY <1>1, <1>3, <1>4 DEF Reject, Fails, Refused
<1>5. ASSUME NEW id \in ProposalId, Grant(id) PROVE live' = replay'
  BY <1>1, <1>3, <1>5 DEF Grant, Fails, Refused
<1>6. ASSUME Apply PROVE live' = replay'
  <2>1. op # Idle
    BY <1>6 DEF Apply, Idle
  <2>2. live.proposals[op.id].status = "approved"
    BY <2>1, TypesHold DEF TypeOK
  <2> QED
    BY <1>1, <1>6, <2>2 DEF Apply, Fails, Refused, Stored, ApplyEvent, Decision, Event
<1>7. ASSUME Restart PROVE live' = replay'
  BY <1>7 DEF Restart
<1>8. CASE UNCHANGED vars
  BY <1>8 DEF vars
<1> QED
  BY <1>2, <1>4, <1>5, <1>6, <1>7, <1>8 DEF Next

(* While no answer was lost, a restart brings back what memory holds, also *)
(* between the two appends of a grant (engine.go, applyEvent).             *)
THEOREM RestartRestores == Spec => []ReplayRestores
<1>1. Init => ReplayRestores
  BY DEF Init, ReplayRestores
<1> QED
  BY <1>1, PipelineIsSafe, ParallelHolds, PTL DEF Spec

(* Definitions change by a signature only, and each signature counts once. *)
LEMMA SignaturesHold == PipelineInv => ChangesAreSigned
<1> SUFFICES ASSUME PipelineInv, NEW n \in DOMAIN journal, journal[n].kind = "applied"
             PROVE  /\ LastDecision(journal[n].id, n) = "approved"
                    /\ \A m \in 1..(n - 1) :
                         journal[m].kind = "applied" => journal[m].id # journal[n].id
  BY DEF ChangesAreSigned
<1>1. n \in Nat
  BY DEF PipelineInv, Types
<1>2. /\ DecidedLast(journal, journal[n].id, n, "approved")
      /\ \A m \in 1..(n - 1) :
           journal[m].kind = "applied" => journal[m].id # journal[n].id
  BY DEF PipelineInv, Signed
<1> QED
  BY <1>1, <1>2, LastOfDecided

(* An applied change follows a grant of its proposal and is applied once   *)
(* (proposals.go, DecideProposal).                                         *)
THEOREM SignedChangesOnly == Spec => []ChangesAreSigned
BY PipelineIsSafe, SignaturesHold, PTL

(* A node swaps its definition in the second append of a grant or by a     *)
(* restart; nothing else touches it.                                       *)
LEMMA DefinitionStays ==
  ASSUME PipelineInv, [Next]_vars, ~Apply, ~Restart
  PROVE  SameHead(live, live')
<1>1. live \in Projection
  BY DEF PipelineInv, Types
<1>2. live' = live => SameHead(live, live')
  BY DEF SameHead
<1>3. ASSUME NEW pack \in Pack, ProposeChange(pack) PROVE SameHead(live, live')
  <2> DEFINE x == Parked(live.version, pack, Plan(Running(live), ModelOf[pack]))
  <2>1. live' = live \/ live' = [live EXCEPT !.proposals[NextId] = x]
    BY <1>3 DEF ProposeChange
  <2> HIDE DEF x
  <2>2. ASSUME live' = [live EXCEPT !.proposals[NextId] = x] PROVE SameHead(live, live')
    BY <1>1, <2>2 DEF Projection, SameHead
  <2> QED
    BY <1>2, <2>1, <2>2
<1>4. ASSUME NEW id \in ProposalId, Reject(id) \/ Grant(id) PROVE SameHead(live, live')
  <2>1. \/ live' = live
        \/ live' = [live EXCEPT !.proposals[id].status = "rejected"]
        \/ live' = [live EXCEPT !.proposals[id].status = "approved"]
    BY <1>4 DEF Reject, Grant
  <2>2. {"rejected", "approved"} \subseteq Status
    BY DEF Status
  <2> QED
    BY <1>1, <1>2, <2>1, <2>2, Turning
<1>5. CASE UNCHANGED vars
  BY <1>2, <1>5 DEF vars
<1> QED
  BY <1>3, <1>4, <1>5 DEF Next

(* The grant that is under way is of this proposal, and memory's swap is   *)
(* to its pack, after which memory is its journal's definition.            *)
LEMMA ApplySwaps ==
  ASSUME PipelineInv, Apply
  PROVE  \E id \in ProposalId :
           /\ op = Approved(id) /\ op.id = id
           /\ HonestAbout(live, id)
           /\ \/ live' = live
              \/ live'.pack = live.proposals[id].pack
<1>1. PICK id \in ProposalId : op = Approved(id)
  <2>1. op.at = "approved" /\ op \in {Idle} \cup {Approved(k) : k \in ProposalId}
    BY DEF Apply, PipelineInv, Types
  <2> QED
    BY <2>1 DEF Idle, Approved
<1>2. op.id = id /\ HonestAbout(live, id)
  BY <1>1 DEF PipelineInv, GrantUnderWay, Approved
<1>3. live' = live \/ live'.pack = live.proposals[id].pack
  <2>1. \/ live' = live
        \/ live' = [live EXCEPT !.version = @ + 1, !.pack = live.proposals[id].pack,
                                !.proposals[id].status = "applied"]
    BY <1>2 DEF Apply, Fails
  <2>2. live \in Projection
    BY DEF PipelineInv, Types
  <2> QED
    BY <2>1, <2>2, Applying
<1> QED
  BY <1>1, <1>2, <1>3

(* The plan that was shown is what a decision does.                        *)
LEMMA HonestStep ==
  PipelineInv /\ [Next]_vars =>
    [(op # Idle /\ live.version # live'.version /\ op' = Idle /\ journal' # journal) =>
       live.proposals[op.id].plan = Plan(Running(live), Running(live)')]_vars
<1> SUFFICES ASSUME PipelineInv, [Next]_vars, live.version # live'.version, journal' # journal
             PROVE  live.proposals[op.id].plan = Plan(Running(live), Running(live)')
  OBVIOUS
<1>1. ~Restart
  BY DEF Restart
<1>2. Apply
  BY <1>1, DefinitionStays DEF SameHead
<1>3. PICK id \in ProposalId :
        /\ op.id = id /\ HonestAbout(live, id)
        /\ live' = live \/ live'.pack = live.proposals[id].pack
  BY <1>2, ApplySwaps
<1> QED
  BY <1>3 DEF HonestAbout, Running

(* A swap of the definition is the change that the approver was shown      *)
(* (proposals.go, ProposeChange, DecideProposal).                          *)
THEOREM HonestPlans == Spec => PlanIsHonest
BY PipelineIsSafe, HonestStep, PTL DEF Spec, PlanIsHonest

(* What the node served, it serves: an apply extends the definition in     *)
(* memory, and a restart goes to one that does (validateAdditive).         *)
LEMMA LegalStep ==
  PipelineInv /\ [Next]_vars =>
    [KeepsData(Running(live), Running(live)')]_vars
<1> SUFFICES ASSUME PipelineInv, [Next]_vars
             PROVE  KeepsData(Running(live), Running(live)')
  OBVIOUS
<1>1. CASE ~Apply /\ ~Restart
  BY <1>1, DefinitionStays, DataKept DEF SameHead, Running
<1>2. CASE Restart
  BY <1>2 DEF Restart, PipelineInv, JournalExtends, Running
<1>3. CASE Apply
  <2>1. PICK id \in ProposalId :
          /\ HonestAbout(live, id)
          /\ live' = live \/ live'.pack = live.proposals[id].pack
    BY <1>3, ApplySwaps
  <2>2. live.pack \in Accepted /\ live.proposals[id].pack \in Accepted
    BY DEF PipelineInv, Types, Projection, Proposal
  <2>3. KeepsData(ModelOf[live.pack], ModelOf[live.proposals[id].pack])
    BY <2>1, <2>2, AdditiveKeepsData DEF HonestAbout, Running
  <2> QED
    BY <2>1, <2>3, DataKept DEF Running
<1> QED
  BY <1>1, <1>2, <1>3

(* Every entity, field, type and enum value that was served stays, so      *)
(* legal data stays legal, but for options of an array[enum]               *)
(* (proposals.go, validateAdditive).                                       *)
THEOREM NothingIsLost == Spec => DataStaysLegal
BY PipelineIsSafe, LegalStep, PTL DEF Spec, DataStaysLegal

(* What the compiler accepts, the engine can run (semantic.go).            *)
LEMMA CompiledIsSound ==
  ASSUME NEW pack \in Accepted
  PROVE  LET m == ModelOf[pack]
         IN  /\ \A rule \in m.automations :
                  /\ rule.entity # NoName => rule.entity \in DOMAIN m.entities
                  /\ rule.on = "stuck" => rule.entity \in DOMAIN m.workflows
             /\ \A n \in DOMAIN m.workflows :
                  /\ n \in DOMAIN m.entities
                  /\ \A t \in Elements(m.workflows[n].transitions) :
                       t.to \in States(m.entities[n], m.workflows[n].field)
<1> DEFINE ast == Source(pack)
           m == ModelOf[pack]
<1>1. /\ m.entities = Entities(ast) /\ m.workflows = Workflows(ast)
      /\ m.automations = Elements(ast.automations)
  BY DEF ModelOf, Model, Accepted
<1>2. /\ \A w \in Elements(ast.workflows) : WorkflowCompiles(ast, w, Entities(ast))
      /\ \A rule \in Elements(ast.automations) : RuleCompiles(ast, rule, Entities(ast))
  BY DEF Accepted, Compiles
<1>3. ASSUME NEW rule \in Elements(ast.automations)
      PROVE  /\ rule.entity # NoName => rule.entity \in DOMAIN Entities(ast)
             /\ rule.on = "stuck" => rule.entity \in DOMAIN Workflows(ast)
  BY <1>2, SourceAssumption DEF RuleCompiles, StuckCompiles
<1>4. ASSUME NEW n \in DOMAIN Workflows(ast)
      PROVE  /\ n \in DOMAIN Entities(ast)
             /\ \A t \in Elements(Workflows(ast)[n].transitions) :
                  t.to \in States(Entities(ast)[n], Workflows(ast)[n].field)
  <2> DEFINE w == Workflows(ast)[n]
  <2>1. n \in {u.entity : u \in Elements(ast.workflows)}
    BY DEF Workflows
  <2>2. w = CHOOSE u \in Elements(ast.workflows) : u.entity = n
    BY <2>1 DEF Workflows
  <2>3. w \in Elements(ast.workflows) /\ w.entity = n
    BY <2>1, <2>2
  <2> HIDE DEF w
  <2>4. WorkflowCompiles(ast, w, Entities(ast))
    BY <1>2, <2>3
  <2>5. /\ n \in DOMAIN Entities(ast)
        /\ \A t \in Elements(w.transitions) : t.to \in States(Entities(ast)[n], w.field)
    BY <2>3, <2>4 DEF WorkflowCompiles, TransitionCompiles
  <2> QED
    BY <2>5 DEF w
<1> QED
  BY <1>1, <1>3, <1>4

LEMMA SoundnessHolds == PipelineInv => RunningModelIsSound
<1> SUFFICES ASSUME PipelineInv PROVE RunningModelIsSound
  OBVIOUS
<1>1. live.pack \in Accepted
  BY DEF PipelineInv, Types, Projection
<1> QED
  BY <1>1, CompiledIsSound DEF RunningModelIsSound, Running

(* The running model has every entity, workflow and state that the engine  *)
(* takes for granted (semantic.go).                                        *)
THEOREM SoundModels == Spec => []RunningModelIsSound
BY PipelineIsSafe, SoundnessHolds, PTL
=============================================================================
