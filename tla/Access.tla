------------------------------- MODULE Access -------------------------------
(***************************************************************************)
(* What an actor sees (internal/engine: permissions.go, index.go,          *)
(* computed.go, dashboard.go, meta.go, files.go and the reads of           *)
(* records.go): every read goes through `can`, and a query looks only at   *)
(* the records that a lazily built index offers it.  Writes drop the       *)
(* index; a definition that is applied does not.                           *)
(*                                                                         *)
(* An actor is a record of its id, role and attributes; the model holds    *)
(* per role a sequence of rules, per entity a sequence of fields.  Values  *)
(* and conditions are those of Conditions.  Order, limit and search of a   *)
(* query, and messages, are left out.                                      *)
(***************************************************************************)
EXTENDS Grammar, Calendars, FiniteSetsExt

CONSTANTS
  Actors, DefApprover,
  CoreEntities,
  Models, FirstModel,
  Entities,       \* of every model
  Ids, FirstRows,
  Legal,          \* per entity: the values a record may have
  Standard,       \* the node's calendar
  Tokens,
  MaxText, MaxNow \* bounds: tokens of a caller's condition, ticks of the clock

Definitions == Models \cup {FirstModel}

Items(m, role) == UNION {m.perms[role][i].items : i \in DOMAIN m.perms[role]}

ASSUME AccessAssumption ==
  /\ IsFiniteSet(DOMAIN FirstRows)
  /\ \A id \in DOMAIN FirstRows : FirstRows[id].entity \in Entities
  /\ \A m \in Definitions :
       /\ \A e \in Entities : Len(m.fields[e]) \in Nat
       /\ \A role \in DOMAIN m.perms : \A item \in Items(m, role) : item.where \in Seq(Token)

VARIABLES
  model,   \* the running definition
  rows,    \* the records: entity and values by id
  index,   \* per entity: the index, if there is one
  text,    \* the condition a caller writes for its query
  now

vars == <<model, rows, index, text, now>>

-----------------------------------------------------------------------------
(* Records. *)
IdsOf(e) == {id \in DOMAIN rows : rows[id].entity = e}

Raw(id) == rows[id].values

ValuesById == [id \in DOMAIN rows |-> rows[id].values]

ValueAt(values, f) == IF f \in DOMAIN values THEN values[f] ELSE Nil

CtxFor(self, a, values) == Context(values, a, self, now, ValuesById)

(* The number a roll-up of the ids S gives, over its divisor; number[id]   *)
(* is empty where a record has none.                                       *)
RollUp(fn, S, number) ==
  LET numeric == UNION {number[id] : id \in S}
      total == MapThenSumSet(LAMBDA id : CHOOSE n \in number[id] : TRUE,
                             {id \in S : number[id] # {}})
  IN  CASE fn = "count" -> <<Cardinality(S), 1>>
        [] fn = "sum" -> <<total, 1>>
        [] fn = "avg" -> IF S = {} THEN <<0, 1>> ELSE <<total, Cardinality(S)>>
        [] fn = "min" -> <<IF numeric = {} THEN 0 ELSE Min(numeric), 1>>
        [] OTHER -> <<IF numeric = {} THEN 0 ELSE Max(numeric), 1>>

-----------------------------------------------------------------------------
(* Computed fields: one term each, evaluated in the order of the fields on *)
(* top of what is stored; a term that fails leaves the field out.          *)
CalendarBy(arg) ==
  LET core == IdsOf("core.Calendar")
      byCode == {id \in core : ValueAt(Raw(id), "code") = Text(arg)}
  IN  IF byCode # {} THEN FromRecord(Raw(CHOOSE id \in byCode : TRUE))
      ELSE IF arg \in core THEN FromRecord(Raw(arg))
      ELSE Standard

BusinessTime(cal, unit, t) ==
  CASE unit = "day" -> BusinessDaysBetween(cal, t, now)
    [] unit = "hour" -> BusinessMinutesBetween(cal, t, now) \div 60
    [] OTHER -> BusinessMinutesBetween(cal, t, now)

(* evalBusinessSince: the calendar's code, or a path to a code or an id.   *)
BusinessSince(unit, path, arg, values) ==
  LET found(kind, p) == {v[2] : v \in {v \in ResolvePath(p, values, ValuesById) : v[1] = kind}}
      named == found("text", arg)
      cal == CalendarBy(IF named = {} THEN arg[1] ELSE CHOOSE s \in named : TRUE)
  IN  {BusinessTime(cal, unit, t) : t \in found("time", path)}

TermOf(e, f) == {d.computed : d \in {d \in {model.fields[e][i] : i \in DOMAIN model.fields[e]} :
                                       d.name = f /\ d.computed # <<>>}}

Terms == {d.computed : d \in UNION {{model.fields[e][i] : i \in DOMAIN model.fields[e]} : e \in Entities}}

(* A roll-up of the records that refer to record self: of a computed field *)
(* where there is one.  Averages are whole numbers here.                   *)
Whole(quotient) == quotient[1] \div quotient[2]

NumbersOf(computed, stored) == IF computed # {} THEN computed ELSE ToFloat(stored)

RollUps ==
  LET rolled[k \in Terms \X DOMAIN rows] ==
        LET term == k[1]
            S == {id \in IdsOf(term[2]) : ValueAt(Raw(id), term[4]) = Text(k[2])}
            computed(id) ==
              UNION {IF t[1] = "since" THEN BusinessSince(t[2], t[3], t[4], Raw(id))
                     ELSE {rolled[<<t, id>>]} : t \in TermOf(term[2], term[3])}
        IN  Whole(RollUp(term[1], S,
                         [id \in S |-> NumbersOf(computed(id), ValueAt(Raw(id), term[3]))]))
  IN  rolled

(* The number a term gives. *)
EvalComputed(term, self, values) ==
  IF term[1] = "since" THEN BusinessSince(term[2], term[3], term[4], values)
  ELSE {RollUps[<<term, self>>]}

WithField(name, found, values) ==
  IF found = {} THEN values ELSE Over(Entry(name, Num(CHOOSE n \in found : TRUE)), values)

Extended(field, self, values) ==
  IF field.computed = <<>> THEN values
  ELSE WithField(field.name, EvalComputed(field.computed, self, values), values)

WithComputed(id) ==
  LET fields == model.fields[rows[id].entity]
      extended[i \in 0..Len(fields)] ==
        IF i = 0 THEN Raw(id) ELSE Extended(fields[i], id, extended[i - 1])
  IN  extended[Len(fields)]

-----------------------------------------------------------------------------
(* Permissions.  A record is given as a set: empty for checks without one. *)
IsCrud(verb) == verb \in {"read", "create", "update", "delete"}

Rules(role) == {model.perms[role][i] : i \in DOMAIN model.perms[role]}

ItemMatches(item, granted, verb, e, field) ==
  /\ granted = verb \/ (granted = "full" /\ IsCrud(verb))
  /\ item.all \/ (item.entity = e /\ item.field \in {"", "*", field})

Holds(item, a, record) ==
  item.where = <<>> \/ \E values \in record : EvalWhere(item.where, CtxFor("", a, values))

Denied(a, verb, e, field, record) ==
  \E rule \in Rules(a.role) :
    /\ rule.verb = "deny"
    /\ \E item \in rule.items :
         ItemMatches(item, item.verb, verb, e, field) /\ Holds(item, a, record)

Allowed(a, verb, e, field, record) ==
  \E rule \in Rules(a.role) :
    \E item \in rule.items :
      ItemMatches(item, rule.verb, verb, e, field) /\ Holds(item, a, record)

Can(a, verb, e, field, record) ==
  IF e \in CoreEntities THEN verb = "read" \/ a.role = DefApprover
  ELSE /\ a.role \in DOMAIN model.perms
       /\ ~Denied(a, verb, e, field, record)
       /\ Allowed(a, verb, e, field, record)

MaskFields(a, e, values) ==
  LET readable == {f \in DOMAIN values : Can(a, "read", e, f, {values})}
  IN  [f \in readable |-> values[f]]

Readable(a, e, id) == Can(a, "read", e, "", {Raw(id)})

-----------------------------------------------------------------------------
(* The index.  A scope term of a condition is `field = $me[.attr]`. *)
IdxKey(v) ==
  CASE v = Nil -> "<nil>"
    [] v[1] = "num" -> ToString(v[2])
    [] v[1] = "bool" -> IF v[2] THEN "true" ELSE "false"
    [] v[1] = "money" -> "map[amount:" \o ToString(v[2]) \o "]"
    [] OTHER -> v[2]

ScopeTerms(where) ==
  {i \in 1..(Len(where) - 2) :
     /\ where[i][1] = "word" /\ Len(where[i][2]) = 1 /\ where[i][2][1] \notin Reserved
     /\ where[i + 1] = Mark("=")
     /\ where[i + 2][1] = "word" /\ where[i + 2][2][1] = "$me" /\ Len(where[i + 2][2]) <= 2}

ReadRules(role) == {rule \in Rules(role) : rule.verb \in {"read", "full"}}

IndexedScopeFields(e) ==
  UNION {{item.where[i][2][1] : i \in ScopeTerms(item.where)} :
           item \in {item \in UNION {rule.items : rule \in UNION {ReadRules(r) : r \in DOMAIN model.perms}} :
                       item.entity = e}}

Build(e) ==
  [count |-> Cardinality(IdsOf(e)),
   keys |-> [f \in IndexedScopeFields(e) |-> [id \in IdsOf(e) |-> IdxKey(ValueAt(Raw(id), f))]]]

GetIndex(e) ==
  LET kept == {x \in index[e] : x.count = Cardinality(IdsOf(e))}
  IN  IF kept # {} THEN CHOOSE x \in kept : TRUE ELSE Build(e)

(* scopeValue: the first scope term whose field is indexed, with the key   *)
(* the actor has for it; an attribute the actor lacks is null.             *)
Served(where, x) == {i \in ScopeTerms(where) : where[i][2][1] \in DOMAIN x.keys}

Subject(a, segments) ==
  IF Len(segments) = 1 THEN Text(a.id) ELSE ValueAt(a.attrs, segments[2])

Bucket(where, x, a) ==
  LET i == Min(Served(where, x))
      keys == x.keys[where[i][2][1]]
  IN  {id \in DOMAIN keys : keys[id] = IdxKey(Subject(a, where[i + 2][2]))}

Disjunctive(where) == \E i \in 2..(Len(where) - 1) : where[i] = Word(<<"or">>)

(* candidateIDs: the buckets of the role's read rules, if every one of     *)
(* them has one; otherwise all records of the entity.                      *)
CandidateIDs(a, e) ==
  LET x == GetIndex(e)
      items == {item \in UNION {rule.items : rule \in ReadRules(a.role)} :
                  item.all \/ item.entity = e}
      narrows(item) == /\ ~item.all /\ item.where # <<>>
                       /\ ~Disjunctive(item.where) /\ Served(item.where, x) # {}
  IN  IF a.role \notin DOMAIN model.perms \/ items = {} \/ \E item \in items : ~narrows(item)
      THEN IdsOf(e)
      ELSE (UNION {Bucket(item.where, x, a) : item \in items}) \cap IdsOf(e)

-----------------------------------------------------------------------------
(* What a pack has to keep to for the index only to narrow (see            *)
(* OneVisibility): a condition that is looked up is about no entity of the *)
(* core and negates nothing, and where its term holds of a record it may   *)
(* be asked about, the record has the actor's key.                         *)
Possible(e) ==
  Legal[e] \cup {FirstRows[id].values : id \in {id \in DOMAIN FirstRows : FirstRows[id].entity = e}}

Keyed(field, subject, e) ==
  /\ field \notin {"true", "false", "null"}
  /\ \A values \in Possible(e) :
       ValuesEqual(IF field \in DOMAIN values THEN values[field] ELSE Text(field), subject)
         => IdxKey(ValueAt(values, field)) = IdxKey(subject)

Narrowing(m, role, e) ==
  {item \in UNION {m.perms[role][i].items :
                     i \in {i \in DOMAIN m.perms[role] : m.perms[role][i].verb \in {"read", "full"}}} :
     ~item.all /\ item.entity = e /\ ~Disjunctive(item.where) /\ ScopeTerms(item.where) # {}}

ScopesArePlain ==
  \A m \in Definitions, e \in Entities :
    \A role \in DOMAIN m.perms :
      \A item \in Narrowing(m, role, e) :
        /\ e \notin CoreEntities
        /\ \A i \in DOMAIN item.where : item.where[i] # Word(<<"not">>)
        /\ \A i \in ScopeTerms(item.where), a \in Actors :
             a.role = role => Keyed(item.where[i][2][1], Subject(a, item.where[i + 2][2]), e)

(* The value of a file is its hash, in a field of a type that stays one.   *)
FilesAreDeclared ==
  \A e \in Entities : \A values \in Possible(e) : \A f \in DOMAIN values :
    values[f][1] = "file" =>
      /\ values[f] = <<"file", values[f][2]>>
      /\ \A m \in Definitions : \E i \in DOMAIN m.fields[e] : m.fields[e][i].type = "file"

-----------------------------------------------------------------------------
(* Reads.  An answer is an id with the fields the actor may read. *)
Answer(a, e, id) == [id |-> id, values |-> MaskFields(a, e, WithComputed(id))]

Matches(a, id, where) ==
  where = <<>> \/ EvalWhere(where, CtxFor(id, a, WithComputed(id)))

Query(a, e, where) ==
  {Answer(a, e, id) : id \in {id \in CandidateIDs(a, e) :
                                Readable(a, e, id) /\ Matches(a, id, where)}}

Get(a, e, id) ==
  IF id \in IdsOf(e) /\ Readable(a, e, id) THEN {Answer(a, e, id)} ELSE {}

GroupKey(v) ==
  CASE v = Nil \/ v = Text("") -> "(none)"
    [] OTHER -> IdxKey(v)

(* computeTile: over every readable record of the table, by group. *)
Grouped(counted, fn, field, groupBy) ==
  LET key(id) == IF groupBy = "" THEN "" ELSE GroupKey(ValueAt(counted[id], groupBy))
      number == [id \in DOMAIN counted |-> ToFloat(ValueAt(counted[id], field))]
  IN  [k \in {key(id) : id \in DOMAIN counted} |->
         RollUp(fn, {id \in DOMAIN counted : key(id) = k}, number)]

Tile(a, e, fn, field, where, groupBy) ==
  LET counted == {id \in IdsOf(e) : Readable(a, e, id) /\ Matches(a, id, where)}
  IN  Grouped([id \in counted |-> WithComputed(id)], fn, field, groupBy)

(* Files: of a record with a file field, by any value that names the hash. *)
HasFileField(e) == \E i \in DOMAIN model.fields[e] : model.fields[e][i].type = "file"

ActorCanReadFile(a, hash) ==
  \E id \in DOMAIN rows :
    /\ HasFileField(rows[id].entity)
    /\ \E f \in DOMAIN Raw(id) : Raw(id)[f] = <<"file", hash>>
    /\ Readable(a, rows[id].entity, id)

(* MetaFor: what the interface shows an actor of the definition, without   *)
(* a record at hand.                                                       *)
HasAnyRule(role, verb, e) ==
  /\ role \in DOMAIN model.perms
  /\ \E rule \in Rules(role) :
       rule.verb \in {verb, "full"} /\ \E item \in rule.items : item.all \/ item.entity = e

MetaReads(a, e, field) == Can(a, "read", e, field, {}) \/ HasAnyRule(a.role, "read", e)

-----------------------------------------------------------------------------
Init ==
  /\ model = FirstModel
  /\ rows = FirstRows
  /\ index = [e \in Entities |-> {}]
  /\ text = <<>>
  /\ now = 0

(* A mutant: an update leaves the index alone. *)
WriteKeepsIndex(e, id, values) ==
  /\ id \in DOMAIN rows => rows[id].entity = e
  /\ rows' = Over(Entry(id, [entity |-> e, values |-> values]), rows)
  /\ UNCHANGED <<model, index, text, now>>

(* Create, Update, a transition, an import: the record and dropIndex. *)
Write(e, id, values) ==
  /\ id \in DOMAIN rows => rows[id].entity = e
  /\ rows' = Over(Entry(id, [entity |-> e, values |-> values]), rows)
  /\ index' = [index EXCEPT ![e] = {}]
  /\ UNCHANGED <<model, text, now>>

(* DecideProposal: another definition runs. *)
Apply(m) ==
  /\ model' = m
  /\ UNCHANGED <<rows, index, text, now>>

(* Query, and what reads through it: the index is built if it is missing.  *)
Look(a, e) ==
  /\ a.role \in DOMAIN model.perms
  /\ index' = [index EXCEPT ![e] = {GetIndex(e)}]
  /\ UNCHANGED <<model, rows, text, now>>

Type(token) ==
  /\ Len(text) < MaxText
  /\ text' = Append(text, token)
  /\ UNCHANGED <<model, rows, index, now>>

Wait ==
  /\ now' \in (now + 1)..MaxNow
  /\ UNCHANGED <<model, rows, index, text>>

Next ==
  \/ \E e \in Entities : \E id \in Ids[e], values \in Legal[e] : Write(e, id, values)
  \/ \E m \in Models : Apply(m)
  \/ \E a \in Actors, e \in Entities : Look(a, e)
  \/ \E token \in Tokens : Type(token)
  \/ Wait

Spec == Init /\ [][Next]_vars

-----------------------------------------------------------------------------
Total(tile) == MapThenSumSet(LAMBDA k : tile[k][1], DOMAIN tile)

(* All reads agree on which records there are for an actor: a query finds  *)
(* what its condition selects among the records Get would give, field by   *)
(* field, whatever index was built before which writes and definitions; a  *)
(* dashboard counts those; a file opens with a record that carries it; the *)
(* interface shows the entities and fields that come back (index.go: "it   *)
(* only narrows the candidate set"; dashboard.go: "aggregates respect      *)
(* row-level ABAC"; meta.go).  Where the read rules the index narrows by   *)
(* are plain, which excludes `not` (CandidatesCoverPermitted), and files   *)
(* are declared.                                                           *)
OneVisibility ==
  \A a \in Actors, e \in Entities :
    LET given == UNION {Get(a, e, id) : id \in IdsOf(e)}
        found == {x \in given : Matches(a, x.id, text)}
        shown == Query(a, e, text)
        tile == Tile(a, e, "count", "", text, "region")
    IN  /\ shown = found
        /\ Cardinality(found) = Total(tile)
        /\ \A x \in given :
             /\ MetaReads(a, e, "")
             /\ \A f \in DOMAIN x.values :
                  /\ MetaReads(a, e, f)
                  /\ x.values[f][1] = "file" => ActorCanReadFile(a, x.values[f][2])

(* A condition means what the grammar says, and is refused if the grammar  *)
(* has no tree for it, whatever its operators bind (expr.go:17-26, "closed *)
(* grammar"; parseOr and below).                                           *)
ParserIsTheGrammar == ParsedTrees(text, Nowhere) = Trees(text)

(* Between two instants within the loop's guard, a calendar whose hours    *)
(* lie in the day counts the working time to the minute: never more, and   *)
(* less by under two minutes, one for each end (calendar.go,               *)
(* businessMinutesBetween).                                                *)
BusinessTimeIsCounted ==
  \A id \in IdsOf("core.Calendar"), from \in 0..now :
    LET cal == FromRecord(Raw(id))
        ticks == Cardinality(WorkingTicks(cal, from, now))
        counted == BusinessMinutesBetween(cal, from, now) * TicksPerMinute
    IN  HoursInDay(cal) /\ Day(now) - Day(from) < MaxDays =>
        counted <= ticks /\ ticks < counted + 2 * TicksPerMinute

(* The comment on candidateIDs: the candidates are always a superset of    *)
(* the permitted records (index.go:96-97).                                 *)
CandidatesCoverPermitted ==
  \A a \in Actors, e \in Entities :
    {id \in IdsOf(e) : Readable(a, e, id)} \subseteq CandidateIDs(a, e)
=============================================================================
