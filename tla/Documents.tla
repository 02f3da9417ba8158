----------------------------- MODULE Documents ------------------------------
(***************************************************************************)
(* The records themselves, what hangs on them and what the heartbeat does  *)
(* to them (internal/engine: records.go, links.go, comments.go,            *)
(* automation.go, with validate.go and serial.go in Validation): checked   *)
(* against the projection, appended to the journal, then projected.  An    *)
(* append may be stored and answered with an error; a restart folds the    *)
(* journal into a new projection.                                          *)
(*                                                                         *)
(* Handlers run one at a time under the engine's mutex.  A refused call    *)
(* changes nothing and is left out, permissions with it (Access); a move   *)
(* of the workflow field is any transition (Workflow) but one that leaves  *)
(* the state as it is, which `any` allows too.  Time is in days.           *)
(***************************************************************************)
EXTENDS Validation

CONSTANTS
  Entity, Decl,      \* the declarations
  StateField,        \* per entity: the field its workflow governs, or NoField
  NoField,
  Core,              \* the entities of the core pack
  LinkDecls, Rules,  \* the link and automation blocks, in their order
  Ids,               \* record ids, in the order they are minted
  Given, Changes,    \* per entity: the values calls bring
  Imports,           \* per entity: the values of the records of an old era
  Keys, NoKey,       \* idempotency keys: each stands for one call
  Actor,
  CondHolds(_, _),   \* the evaluator of conditions (Conditions), in a context
  WithComputed(_, _, _, _, _),  \* an entity, id and values, with what is computed
                                \* of them on a day among records
  Most,              \* bound: events of each kind
  MaxEvents, MaxLost, MaxDay

IsSequence(s) == s \in Seq({s[i] : i \in DOMAIN s})

(* What the compiler checks of declarations: fields have names of their    *)
(* own, a workflow governs an enum field, a link's two names are nobody    *)
(* else's on their entities, a stuck rule names its entity (semantic.go).  *)
ASSUME DeclAssumption ==
  /\ IsSequence(LinkDecls) /\ IsSequence(Rules)
  /\ \A e \in Entity :
       /\ IsSequence(Decl[e].fields)
       /\ \A i, j \in DOMAIN Decl[e].fields :
            Decl[e].fields[i].name = Decl[e].fields[j].name => i = j
       /\ \A d \in Fields(Decl[e]) : d.name = StateField[e] => d.type.kind = "enum"
       /\ \A values \in Imports[e] : values = [f \in DOMAIN values |-> values[f]]
  /\ \A i, j \in DOMAIN LinkDecls :
       \/ LinkDecls[i].from = LinkDecls[j].from /\ LinkDecls[i].forward = LinkDecls[j].forward
       \/ LinkDecls[i].to = LinkDecls[j].to /\ LinkDecls[i].inverse = LinkDecls[j].inverse
       \/ LinkDecls[i].from = LinkDecls[j].to /\ LinkDecls[i].forward = LinkDecls[j].inverse
       => i = j
  /\ \A i \in DOMAIN Rules :
       /\ Rules[i].entity \in Entity \cup {NoField}
       /\ Rules[i].on = "stuck" => Rules[i].entity # NoField
       /\ Rules[i].steps \in Nat

(* Ids are minted once and are no marker; a client's key is no rule's key. *)
ASSUME IdAssumption ==
  /\ IsSequence(Ids)
  /\ \A i, j \in DOMAIN Ids : Ids[i] = Ids[j] => i = j
  /\ NoField \notin {Ids[i] : i \in DOMAIN Ids}
  /\ \A key \in Keys \cup {NoKey}, i \in DOMAIN Rules, k \in 0..Len(Ids),
       period \in 1..(MaxEvents + MaxDay) :
       LET id == IF k = 0 THEN NoField ELSE Ids[k]
       IN  \A step \in 1..Rules[i].steps : key # <<Rules[i].on, i, step, id, period>>

ASSUME BoundAssumption ==
  /\ MaxSerial \in Nat /\ MaxEvents \in Nat /\ MaxDay \in Nat \ {0}
  /\ 1..MaxDay \subseteq Years

VARIABLES
  journal,
  db,       \* the projection
  day,
  behind,   \* stored events the projection was not told of
  skew,     \* the records that a repeated call wrote, as no event says, and
  rewritten, \* since the start of the process; ever (history)
  ticked    \* the last change was a heartbeat without errors

vars == <<journal, db, day, behind, skew, rewritten, ticked>>

-----------------------------------------------------------------------------
Minted == {Ids[i] : i \in DOMAIN Ids}

(* Events.  History: lost, whether its append was answered with an error.  *)
Event(kind, e, id, body, key) ==
  [kind |-> kind, entity |-> e, id |-> id, body |-> body, key |-> key,
   day |-> day, lost |-> FALSE]

Count(kind) == Cardinality({n \in DOMAIN journal : journal[n].kind = kind})

ByIdemKey(log, key) == {n \in DOMAIN log : key # NoKey /\ log[n].key = key}

Nothing ==
  [records |-> <<>>, since |-> <<>>, links |-> {}, comments |-> {}, tasks |-> {}]

WithValues(d, id, values) ==
  [d EXCEPT !.records = [d.records EXCEPT ![id].values = Over(values, @)]]

Posted(cid, n, e) == [id |-> cid, event |-> n, host |-> e.id, internal |-> e.body]

(* applyEvent: event number n folded into a projection.  A comment's id is *)
(* the event's, which is minted after the one its handler minted.          *)
Apply(d, n, e) ==
  CASE e.kind = "created" ->
         [d EXCEPT !.records = Over(Entry(e.id, [entity |-> e.entity, values |-> e.body.values]), @),
                   !.since = Over(Entry(e.id, n), @)]
    [] e.kind = "updated" ->
         IF e.id \in DOMAIN d.records THEN WithValues(d, e.id, e.body) ELSE d
    [] e.kind = "moved" ->
         [(IF e.id \in DOMAIN d.records
           THEN WithValues(d, e.id, Entry(StateField[e.entity], e.body)) ELSE d)
            EXCEPT !.since = Over(Entry(e.id, n), @)]
    [] e.kind = "linked" -> [d EXCEPT !.links = @ \cup {e.body.fact}]
    [] e.kind = "unlinked" -> [d EXCEPT !.links = @ \ {e.body.fact}]
    [] e.kind = "comment" ->
         [d EXCEPT !.comments = @ \cup {Posted(2 * n, n, e)}]
    [] OTHER -> [d EXCEPT !.tasks = @ \cup {n}]

(* A journal replayed, but for some of its events. *)
Replay(log, without) ==
  LET fold[n \in 0..Len(log)] ==
        IF n = 0 THEN Nothing
        ELSE IF n \in without THEN fold[n - 1]
        ELSE Apply(fold[n - 1], n, log[n])
  IN  fold[Len(log)]

(* A mutant: a move leaves the clock of the record alone. *)
ProjectKeepsSince(d, n, e) ==
  IF e.kind = "moved" THEN WithValues(d, e.id, Entry(StateField[e.entity], e.body))
  ELSE Apply(d, n, e)

(* What the handler does to the projection: what a restart would, but that *)
(* a comment keeps the id the handler minted.                              *)
Project(d, n, e) ==
  IF e.kind = "comment"
  THEN [d EXCEPT !.comments = @ \cup {Posted(2 * n - 1, n, e)}]
  ELSE Apply(d, n, e)

Lost == {n \in DOMAIN journal : journal[n].lost}

(* The bound of every call that appends. *)
Room == Len(journal) < MaxEvents

(* One append and what follows: heard and projected, or lost.  (Refused    *)
(* changes nothing.)                                                       *)
Appends(e) ==
  /\ Count(e.kind) < Most[e.kind]
  /\ \/ /\ journal' = Append(journal, e)
        /\ db' = Project(db, Len(journal) + 1, e)
        /\ UNCHANGED behind
     \/ /\ Cardinality(Lost) < MaxLost
        /\ journal' = Append(journal, [e EXCEPT !.lost = TRUE])
        /\ behind' = behind \cup {Len(journal) + 1}
        /\ UNCHANGED db
  /\ ticked' = FALSE
  /\ UNCHANGED <<day, skew, rewritten>>

(* A call repeated under its key: the store answers with the first event,  *)
(* n, and the handler projects what it made this time over that event.     *)
(* Only where this is what is stored, unheard and the last of the record,  *)
(* is it what a restart would project.                                     *)
AsStored(n, body) ==
  /\ n \in behind /\ body = journal[n].body
  /\ \A m \in (n + 1)..Len(journal) :
       journal[m].kind \in {"updated", "moved"} => journal[m].id # journal[n].id

Repeats(n, body) ==
  LET odd == IF AsStored(n, body) THEN {} ELSE {journal[n].id}
  IN  /\ db' = Apply(db, n, [journal[n] EXCEPT !.body = body])
      /\ behind' = behind \ {n}
      /\ skew' = skew \cup odd /\ rewritten' = rewritten \cup odd
      /\ ticked' = FALSE
      /\ UNCHANGED <<journal, day>>

-----------------------------------------------------------------------------
(* Records. *)
Exists(e, id) == id \in Of(e, db.records)

(* Create's checks, in its order, over the values with their numbers and   *)
(* defaults.  A day of the model is a year of the document numbers.        *)
Prepared(e, given) ==
  Defaulted(Decl[e], AssignSerials(e, Decl[e], given, day, db.records), Actor, day, db.records)

Accepts(e, values, self, merged) ==
  /\ TypesHold(Decl[e], values)
  /\ RefsExist(Decl[e], merged, db.records, Core)
  /\ UniqueWithin(e, Decl[e], merged, self, db.records)

(* Bound: the numbers that a serial's text is read for. *)
HasNumbers(e) ==
  \A d \in Fields(Decl[e]) : IsSerial(d) => NextSerial(e, d, db.records) <= MaxSerial

MayCreate(e, given) ==
  LET numbered == AssignSerials(e, Decl[e], given, day, db.records)
  IN  /\ Decl[e].singleton => Of(e, db.records) = {}
      /\ StateField[e] \notin DOMAIN given
      /\ RequiredHolds(Decl[e], Prepared(e, given))
      /\ Accepts(e, numbered, NoField, Prepared(e, given))
      /\ HasNumbers(e)

FreshId == Ids[Count("created") + 1]

Body(values, given) == [values |-> values, given |-> DOMAIN given, imported |-> FALSE]

(* A mutant: the uniqueness of a record is left to the store. *)
CreateUnchecked(e, given, key) ==
  /\ Room /\ ByIdemKey(journal, key) = {} /\ Count("created") < Len(Ids)
  /\ RequiredHolds(Decl[e], Prepared(e, given))
  /\ Appends(Event("created", e, FreshId, Body(Prepared(e, given), given), key))

Create(e, given, key) ==
  /\ Room /\ ByIdemKey(journal, key) = {} /\ Count("created") < Len(Ids)
  /\ MayCreate(e, given)
  /\ Appends(Event("created", e, FreshId, Body(Prepared(e, given), given), key))

(* If the record is there, nothing happens; otherwise its values are made  *)
(* again and the record is the one of the first event.                     *)
CreateAgain(e, given, key) ==
  \E n \in ByIdemKey(journal, key) :
    LET first == journal[n]
    IN  /\ first.kind = "created" /\ first.entity = e
        /\ first.body.given = DOMAIN given
        /\ \A f \in DOMAIN given : first.body.values[f] = given[f]
        /\ ~Exists(e, first.id)
        /\ MayCreate(e, given)
        /\ Repeats(n, Body(Prepared(e, given), given))

(* Update: what differs is appended; required fields are not looked at.    *)
Differing(id, values) ==
  {f \in DOMAIN values : ValueAt(db.records[id].values, f) # values[f]}

MayUpdate(e, id, values) ==
  /\ Exists(e, id)
  /\ StateField[e] \notin DOMAIN values
  /\ TypesHold(Decl[e], values)
  /\ RefsExist(Decl[e], values, db.records, Core)
  /\ UniqueWithin(e, Decl[e], Over(values, db.records[id].values), id, db.records)
  /\ Differing(id, values) # {}

Changed(id, values) == [f \in Differing(id, values) |-> values[f]]

Update(e, id, values, key) ==
  /\ Room /\ ByIdemKey(journal, key) = {}
  /\ MayUpdate(e, id, values)
  /\ Appends(Event("updated", e, id, Changed(id, values), key))

(* Repeated: what differs by now is written, whatever came in between.     *)
UpdateAgain(e, id, values, key) ==
  \E n \in ByIdemKey(journal, key) :
    LET first == journal[n]
    IN  /\ first.kind = "updated" /\ first.id = id
        /\ \A f \in DOMAIN first.body : f \in DOMAIN values /\ first.body[f] = values[f]
        /\ MayUpdate(e, id, values)
        /\ Repeats(n, Changed(id, values))

(* A transition: the workflow field, and since when it has its value. *)
MayMove(e, id, to) ==
  /\ Exists(e, id) /\ StateField[e] # NoField
  /\ ValueAt(db.records[id].values, StateField[e]) # Text(to)

Move(e, id, to, key) ==
  /\ Room /\ ByIdemKey(journal, key) = {}
  /\ MayMove(e, id, to)
  /\ Appends(Event("moved", e, id, Text(to), key))

(* Repeated: the action is looked up from the state the record is in by    *)
(* now, and may lead elsewhere; the clock is set back to the first event.  *)
MoveAgain(e, id, to, key) ==
  \E n \in ByIdemKey(journal, key) :
    /\ journal[n].kind = "moved" /\ journal[n].id = id
    /\ MayMove(e, id, to)
    /\ Repeats(n, Text(to))

(* ImportRecord: a new era begins with the records of an old one, in an    *)
(* empty journal, their types checked and nothing else.  The process ends  *)
(* with the import, and the next one reads what was stored of it.          *)
Importable(e, values) ==
  \A f \in DOMAIN values :
    \E d \in Fields(Decl[e]) :
      d.name = f /\ (d.computed \/ values[f] = Nil \/ CheckType(d.type, values[f]))

ImportRecord(e, values) ==
  /\ Room /\ Count("created") < Len(Ids)
  /\ \A n \in DOMAIN journal : journal[n].kind = "created" /\ journal[n].body.imported
  /\ Importable(e, values)
  /\ LET body == [Body(values, values) EXCEPT !.imported = TRUE]
         ev == Event("created", e, FreshId, body, NoKey)
     IN  /\ journal' = Append(journal, ev)
         /\ db' = Apply(db, Len(journal) + 1, ev)
  /\ ticked' = FALSE
  /\ UNCHANGED <<day, behind, skew, rewritten>>

-----------------------------------------------------------------------------
(* Links.  LinkByName: the first declaration that has the name on the      *)
(* entity's side, with the direction it is read in; the inverse is read on *)
(* the From side too, whatever the other side is.                          *)
Readings(e, name, l) ==
  {r \in [decl : {l}, forward : BOOLEAN] :
     IF l.from = e /\ l.forward = name THEN r.forward
     ELSE ~r.forward /\ e \in {l.from, l.to} /\ l.inverse = name}

Named(e, name) ==
  UNION {Readings(e, name, LinkDecls[i]) :
           i \in {i \in DOMAIN LinkDecls :
                   \A j \in 1..(i - 1) : Readings(e, name, LinkDecls[j]) = {}}}

(* A mutant: stored as it was asked for. *)
FactAsAsked(r, id, other) == [link |-> r.decl.forward, from |-> id, to |-> other]

(* Stored under the forward name, from the declaration's From to its To.   *)
Fact(r, id, other) ==
  [link |-> r.decl.forward, from |-> IF r.forward THEN id ELSE other,
   to |-> IF r.forward THEN other ELSE id]

Asked(r, id, name, other) == [fact |-> Fact(r, id, other), name |-> name, other |-> other]

Link(e, id, name, other) ==
  Room /\ \E r \in Named(e, name) :
    LET fact == Fact(r, id, other)
    IN  /\ Exists(r.decl.from, fact.from) /\ Exists(r.decl.to, fact.to)
        /\ fact \notin db.links
        /\ Appends(Event("linked", e, id, Asked(r, id, name, other), NoKey))

Unlink(e, id, name, other) ==
  Room /\ \E r \in Named(e, name) :
    /\ Fact(r, id, other) \in db.links
    /\ Appends(Event("unlinked", e, id, Asked(r, id, name, other), NoKey))

(* LinksOf: each stored link, under the first declaration of its forward   *)
(* name; a link of a record to itself is seen from its From side only.     *)
LinksOf(e, id) ==
  LET declOf(l) == LinkDecls[CHOOSE i \in DOMAIN LinkDecls :
                     LinkDecls[i].forward = l.link /\ \A j \in 1..(i - 1) : LinkDecls[j].forward # l.link]
      from == {l \in db.links : declOf(l).from = e /\ l.from = id}
      to == {l \in db.links \ from : declOf(l).to = e /\ l.to = id}
  IN  {[name |-> declOf(l).forward, id |-> l.to] :
         l \in {l \in from : Exists(declOf(l).to, l.to)}}
        \cup {[name |-> declOf(l).inverse, id |-> l.from] :
                l \in {l \in to : Exists(declOf(l).from, l.from)}}

-----------------------------------------------------------------------------
(* Comments: on any record; internal ones are shown to staff only. *)
Comment(e, id, internal) ==
  /\ Room /\ Exists(e, id)
  /\ Appends(Event("comment", e, id, internal, NoKey))

(* A thread in the order of its ids: each comment with those before it.    *)
CommentsOf(d, id, staff) ==
  LET shown == {c \in d.comments : c.host = id /\ (c.internal => staff)}
  IN  {[event |-> c.event, after |-> {b.event : b \in {b \in shown : b.id < c.id}}] : c \in shown}

-----------------------------------------------------------------------------
(* The heartbeat.  A firing is a rule, one of its steps, and the record it *)
(* fires for; its key holds the day, or since when the record is stuck.    *)
Holds(rule, id) ==
  CondHolds(rule.when,
    Context(WithComputed(rule.entity, id, db.records[id].values, day, db.records),
            [id |-> "", attrs |-> <<>>], id, day,
            [x \in DOMAIN db.records |-> db.records[x].values]))

Overdue(rule, id) ==
  /\ ValueAt(db.records[id].values, StateField[rule.entity]) = Text(rule.state)
  /\ id \in DOMAIN db.since
  /\ day - journal[db.since[id]].day >= rule.days

Targets(rule) ==
  IF rule.entity = NoField THEN {NoField}
  ELSE IF rule.on = "schedule" THEN {id \in Of(rule.entity, db.records) : Holds(rule, id)}
  ELSE {id \in Of(rule.entity, db.records) : Overdue(rule, id)}

(* A mutant: the key is the rule's and the record's only. *)
KeyForGood(i, step, id) == <<i, step, id>>

Key(i, step, id) ==
  <<Rules[i].on, i, step, id,
    IF Rules[i].on = "schedule" THEN day ELSE db.since[id]>>

Firings ==
  UNION {{<<i, step, id>> : step \in 1..Rules[i].steps,
                            id \in Targets(Rules[i]) \cap ({NoField} \cup Minted)} :
           i \in {i \in DOMAIN Rules : Rules[i].on \in {"schedule", "stuck"}}}

(* The rules in their order, their records in the order of the ids, their  *)
(* steps.                                                                  *)
Place(id) == IF id = NoField THEN 0 ELSE CHOOSE k \in DOMAIN Ids : Ids[k] = id

Earlier(f, g) ==
  \/ f[1] < g[1]
  \/ f[1] = g[1] /\ Place(f[3]) < Place(g[3])
  \/ f[1] = g[1] /\ f[3] = g[3] /\ f[2] < g[2]

InOrder(S) ==
  [k \in 1..Cardinality(S) |->
     CHOOSE f \in S : Cardinality({g \in S : Earlier(g, f)}) = k - 1]

(* createTask for each firing: an append under its key, which brings the   *)
(* task of a stored event into the pool; a failed one is dropped and the   *)
(* heartbeat goes on.  Bound: one of a heartbeat fails at most.            *)
TaskEvent(f, lost) ==
  [Event("task", Rules[f[1]].entity, f[3], f, Key(f[1], f[2], f[3])) EXCEPT !.lost = lost]

Appended(due, failed, how) ==
  LET new == InOrder({f \in due : /\ ByIdemKey(journal, Key(f[1], f[2], f[3])) = {}
                                  /\ f \in failed => how = "lost"})
  IN  [i \in DOMAIN new |-> TaskEvent(new[i], new[i] \in failed)]

Fire(due) ==
  \E failed \in {{}} \cup {{f} : f \in due}, how \in {"lost", "refused"} :
  \E log \in {journal \o Appended(due, failed, how)} :
    LET heard == UNION {ByIdemKey(log, Key(f[1], f[2], f[3])) : f \in due \ failed}
        lost == {n \in DOMAIN log : log[n].lost}
    IN  /\ Len(log) <= MaxEvents /\ Cardinality(lost) <= MaxLost
        /\ journal' = log
        /\ db' = [db EXCEPT !.tasks = @ \cup heard]
        /\ behind' = (behind \cup (lost \ DOMAIN journal)) \ heard
        /\ ticked' = (failed = {})
        /\ UNCHANGED <<day, skew, rewritten>>

Tick == \E due \in {Firings} : Fire(due)

NextDay ==
  /\ day < MaxDay
  /\ day' = day + 1 /\ ticked' = FALSE
  /\ UNCHANGED <<journal, db, behind, skew, rewritten>>

(* The process dies; the next one replays the journal. *)
Restart ==
  /\ db' = Replay(journal, {})
  /\ behind' = {} /\ skew' = {} /\ ticked' = FALSE
  /\ UNCHANGED <<journal, day, rewritten>>

-----------------------------------------------------------------------------
Init ==
  /\ journal = <<>> /\ db = Nothing /\ day = 1
  /\ behind = {} /\ skew = {} /\ rewritten = {} /\ ticked = FALSE

StatesOf(e) == UNION {d.type.values : d \in {d \in Fields(Decl[e]) : d.name = StateField[e]}}

LinkNames == UNION {{LinkDecls[i].forward, LinkDecls[i].inverse} : i \in DOMAIN LinkDecls}

Next ==
  \/ \E e \in Entity :
       \/ \E given \in Given[e], key \in Keys \cup {NoKey} :
            Create(e, given, key) \/ CreateAgain(e, given, key)
       \/ \E values \in Imports[e] : ImportRecord(e, values)
       \/ \E id \in Minted :
            \/ \E values \in Changes[e], key \in Keys \cup {NoKey} :
                 Update(e, id, values, key) \/ UpdateAgain(e, id, values, key)
            \/ \E to \in StatesOf(e), key \in Keys \cup {NoKey} :
                 Move(e, id, to, key) \/ MoveAgain(e, id, to, key)
            \/ \E name \in LinkNames, other \in Minted :
                 Link(e, id, name, other) \/ Unlink(e, id, name, other)
            \/ \E internal \in BOOLEAN : Comment(e, id, internal)
  \/ Tick \/ NextDay \/ Restart

Spec == Init /\ [][Next]_vars

-----------------------------------------------------------------------------
(* The projection is what a restart would fold from the events it was told *)
(* of, and every thread reads in the same order (engine.go, New,           *)
(* applyEvent; records.go, links.go, comments.go, automation.go: append,   *)
(* then project).  Not so the values of a record, and since when it has    *)
(* its state, once a create, update or transition repeated under its key   *)
(* wrote over an older event what is not its to say (AsStored).            *)
ReplayRestores ==
  LET fold == Replay(journal, behind)
  IN  /\ [db EXCEPT !.comments = {}, !.records = <<>>, !.since = <<>>]
           = [fold EXCEPT !.comments = {}, !.records = <<>>, !.since = <<>>]
      /\ DOMAIN db.records = DOMAIN fold.records /\ DOMAIN db.since = DOMAIN fold.since
      /\ \A id \in DOMAIN db.records :
           /\ db.records[id].entity = fold.records[id].entity
           /\ id \notin skew => db.records[id] = fold.records[id]
      /\ \A id \in DOMAIN db.since \ skew : db.since[id] = fold.since[id]
      /\ \A id \in Minted, staff \in BOOLEAN :
           CommentsOf(db, id, staff) = CommentsOf(fold, id, staff)

(* The records whose every event was answered, and which no repeated call  *)
(* ever wrote as no event says.                                            *)
Heard(e) ==
  {id \in Of(e, db.records) \ rewritten : \A n \in Lost : journal[n].id # id}

Birth(id) == CHOOSE n \in DOMAIN journal : journal[n].kind = "created" /\ journal[n].id = id

Imported(id) == journal[Birth(id)].body.imported

(* The kernel gave the record its number, and nobody wrote it since.       *)
Numbered(id, f) ==
  /\ ~Imported(id) /\ f \notin journal[Birth(id)].body.given
  /\ \A n \in DOMAIN journal :
       journal[n].kind = "updated" /\ journal[n].id = id => f \notin DOMAIN journal[n].body

(* A declaration but for what a transition may break: moves of the state   *)
(* field are not checked against `unique` (workflow.go, applyTransition).  *)
Ungoverned(e) ==
  LET kept(d) == [name |-> d.name, unique |-> d.unique /\ d.name # StateField[e]]
  IN  [fields |-> [i \in DOMAIN Decl[e].fields |-> kept(Decl[e].fields[i])],
       constraints |-> {fields \in Decl[e].constraints : StateField[e] \notin fields}]

(* No number is written like another; not so without {seq} in the format.  *)
TellsNumbers(format) ==
  \A y, z \in Years, m, n \in 1..MaxSerial :
    Text(Format(format, y, m)) = Text(Format(format, z, n)) => m = n

(* Among records whose events were all answered, and that no repeated call *)
(* wrote, unique values are unique, singletons single, numbers given by    *)
(* the kernel distinct and references resolve (validate.go, checkUnique,   *)
(* checkRefsExist; serial.go: "sequences guarantee uniqueness"; records.go,*)
(* Create, Update).  A lost answer lets a second record in, and so does a  *)
(* repeated call: what it wrote goes with the next restart.  Imported      *)
(* records are not checked against each other, nor are their references    *)
(* (engine.go, ImportRecord: "refs may arrive out of order").              *)
UniqueAmongHeard ==
  \A e \in Entity : \A id \in Heard(e) :
    LET values == db.records[id].values
        others == {x \in Heard(e) \ {id} : ~(Imported(id) /\ Imported(x))}
    IN  /\ Decl[e].singleton => others = {}
        /\ UniqueWithin(e, Ungoverned(e), values, id, [x \in others |-> db.records[x]])
        /\ ~Imported(id) => RefsExist(Decl[e], values, db.records, Core)
        /\ \A d \in Fields(Decl[e]), other \in others :
             /\ IsSerial(d) /\ TellsNumbers(d.format)
             /\ Numbered(id, d.name) /\ Numbered(other, d.name)
             => values[d.name] # db.records[other].values[d.name]

(* A link that was stored, answered and not removed since is seen by the   *)
(* record it was asked from under the name that was used, and by the other *)
(* record under the other name; a removed one by neither (links.go: "both  *)
(* records see it under their respective name").  Not so a record's link   *)
(* to itself, nor one asked for a record under another entity's name, nor  *)
(* one whose forward name is another entity's too; and a link whose names  *)
(* are the same is removed in one direction only.                          *)
LinksReadBack ==
  \A n \in DOMAIN journal :
    LET e == journal[n]
        told(m) == m \notin behind /\ journal[m].kind \in {"linked", "unlinked"}
        last == told(n) /\ \A m \in (n + 1)..Len(journal) :
                             told(m) => journal[m].body.fact # e.body.fact
        r == CHOOSE r \in Named(e.entity, e.body.name) : TRUE
        own == \A i \in DOMAIN LinkDecls :
                 LinkDecls[i].forward = r.decl.forward => LinkDecls[i] = r.decl
        mirrored == r.decl.from = r.decl.to /\ r.decl.forward = r.decl.inverse
        there == IF r.forward THEN r.decl.to ELSE r.decl.from
        back == IF r.forward THEN r.decl.inverse ELSE r.decl.forward
        here == [name |-> e.body.name, id |-> e.body.other] \in LinksOf(e.entity, e.id)
        beyond == [name |-> back, id |-> e.id] \in LinksOf(there, e.body.other)
    IN  last /\ own /\ Exists(e.entity, e.id) /\ e.id # e.body.other =>
          IF e.kind = "linked" THEN here /\ beyond ELSE mirrored \/ ~(here \/ beyond)

(* The tasks of a rule's step for a record. *)
TasksFor(f) == {n \in DOMAIN journal : journal[n].kind = "task" /\ journal[n].body = f}

(* However often the heartbeat beats, and whatever it was answered, a rule *)
(* makes one task for a record a day, or one for each time the record came *)
(* into the state it is stuck in, as far as the node was told; and after a *)
(* heartbeat without errors every rule that is due has its task in the     *)
(* pool (automation.go, Tick: "deduplicated per rule+record+day by         *)
(* idempotency keys").  Not so what is stuck of a record that a repeated   *)
(* call wrote: its clock may tell of an earlier stay (rewritten).          *)
EveryPeriodOnce ==
  LET entered(id, n) ==
        {k \in (1..n) \ behind :
           journal[k].id = id /\ journal[k].kind \in {"created", "moved"}}
      samePeriod(f, m, n) ==
        IF Rules[f[1]].on = "schedule" THEN journal[m].day = journal[n].day
        ELSE entered(f[3], m) = entered(f[3], n)
      due(f, n) ==
        IF Rules[f[1]].on = "schedule" THEN journal[n].day = day
        ELSE samePeriod(f, n, Len(journal))
      told(f) == Rules[f[1]].on = "stuck" => f[3] \notin rewritten
  IN  /\ \A n \in DOMAIN journal :
           journal[n].kind = "task" /\ told(journal[n].body) =>
             \A m \in TasksFor(journal[n].body) \ {n} : ~samePeriod(journal[n].body, m, n)
      /\ ticked => \A f \in Firings :
                     told(f) => \E n \in TasksFor(f) \cap db.tasks : due(f, n)
=============================================================================
