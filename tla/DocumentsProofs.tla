-------------------------- MODULE DocumentsProofs ---------------------------
(***************************************************************************)
(* What is stored and answered is what is read, and what a restart brings  *)
(* back: proved for any declarations, calls, links and rules, any answers  *)
(* lost, heartbeats and restarts.                                          *)
(*                                                                         *)
(* A projection is told some events of the journal.  Told says what it     *)
(* holds by those events alone, component by component, without a fold;    *)
(* the projection of the node and the fold of a restart are both told.     *)
(***************************************************************************)
EXTENDS Documents, TLAPS, FiniteSetTheorems, SequenceTheorems, WellFoundedInduction

IsMap(m) == m = [x \in DOMAIN m |-> m[x]]

IsEvent(e) ==
  e = [kind |-> e.kind, entity |-> e.entity, id |-> e.id, body |-> e.body, key |-> e.key,
       day |-> e.day, lost |-> e.lost]

IsProjection(d) ==
  d = [records |-> d.records, since |-> d.since, links |-> d.links,
       comments |-> d.comments, tasks |-> d.tasks]

(* The values an event writes to the record it is about.                   *)
Wrote(e) ==
  CASE e.kind = "created" -> e.body.values
    [] e.kind = "updated" -> e.body
    [] e.kind = "moved" -> Entry(StateField[e.entity], e.body)
    [] OTHER -> [f \in {} |-> Nil]

(* The event brings record x into a state.                                 *)
Enters(e, x) == e.id = x /\ e.kind \in {"created", "moved"}

Born(j, T) == {n \in T : j[n].kind = "created"}

(* Each component of a projection told the events T of journal j.          *)
RecordsTold(j, T, d) ==
  /\ IsMap(d.records) /\ DOMAIN d.records = {j[n].id : n \in Born(j, T)}
  /\ \A n \in Born(j, T) :
       LET r == d.records[j[n].id]
       IN  r = [entity |-> j[n].entity, values |-> r.values] /\ IsMap(r.values)

SinceTold(j, T, d) ==
  /\ IsMap(d.since) /\ DOMAIN d.since = DOMAIN d.records
  /\ \A x \in DOMAIN d.since :
       d.since[x] \in T /\ Enters(j[d.since[x]], x)

LinksTold(j, T, d) ==
  \A l : l \in d.links <=>
    \E n \in T : /\ j[n].kind = "linked" /\ j[n].body.fact = l
                 /\ \A m \in T : m > n /\ j[m].kind = "unlinked" => j[m].body.fact # l

CommentsTold(j, T, d) ==
  /\ \A c \in d.comments :
       /\ c.event \in T /\ j[c.event].kind = "comment"
       /\ c.id \in {2 * c.event - 1, 2 * c.event}
       /\ c = Posted(c.id, c.event, j[c.event])
  /\ \A n \in T : j[n].kind = "comment" => \E c \in d.comments : c.event = n
  /\ \A b, c \in d.comments : b.event = c.event => b = c

TasksTold(j, T, d) == d.tasks = {n \in T : j[n].kind = "task"}

Told(j, T, d) ==
  /\ IsProjection(d)
  /\ RecordsTold(j, T, d) /\ SinceTold(j, T, d) /\ LinksTold(j, T, d)
  /\ CommentsTold(j, T, d) /\ TasksTold(j, T, d)

(* Values of record x: each field as the last event told that wrote it.    *)
ValuesTold(j, T, x, v) ==
  /\ \A n \in T : j[n].id = x => DOMAIN Wrote(j[n]) \subseteq DOMAIN v
  /\ \A f \in DOMAIN v :
       \E n \in T :
         /\ j[n].id = x /\ f \in DOMAIN Wrote(j[n]) /\ v[f] = Wrote(j[n])[f]
         /\ \A m \in T : j[m].id = x /\ f \in DOMAIN Wrote(j[m]) => m <= n

(* Since the last event told that brought it into a state.                 *)
SinceLast(j, T, d, x) == \A m \in T : Enters(j[m], x) => m <= d.since[x]

AsTold(j, T, d, x) == ValuesTold(j, T, x, d.records[x].values) /\ SinceLast(j, T, d, x)

(* A record is born once, and told of before what is written to it.        *)
Sound(j, T) ==
  /\ \A m, n \in Born(j, T) : j[m].id = j[n].id => m = n
  /\ \A n \in T : j[n].kind \in {"updated", "moved"} =>
       \E b \in Born(j, T) : b < n /\ j[b].id = j[n].id /\ j[b].entity = j[n].entity

-----------------------------------------------------------------------------
(* Numbers and sequences.                                                  *)
LEMMA LeastNumber ==
  ASSUME NEW S \in SUBSET Nat, S # {}
  PROVE  \E x \in S : \A y \in S : x <= y
<1> DEFINE R == OpToRel(<, Nat)
<1>1. \A x, y \in Nat : y < x => <<y, x>> \in R
  BY DEF OpToRel
<1>2. IsWellFoundedOn(R, Nat)
  BY NatLessThanWellFounded
<1> HIDE DEF R
<1>3. PICK x \in S : \A y \in S : ~ (<<y, x>> \in R)
  BY <1>2, WFMin
<1>4. x \in Nat /\ \A y \in S : y \in Nat /\ ~(y < x)
  BY <1>1, <1>3
<1> QED
  BY <1>4

LEMMA GreatestNumber ==
  ASSUME NEW k \in Nat, NEW S \in SUBSET (0..k), S # {}
  PROVE  \E x \in S : \A y \in S : y <= x
<1> DEFINE U == {k - y : y \in S}
<1>1. U \in SUBSET Nat /\ U # {}
  <2>1. \A y \in S : k - y \in Nat
    OBVIOUS
  <2> QED BY <2>1
<1>2. PICK u \in U : \A v \in U : u <= v
  <2> HIDE DEF U
  <2> QED BY <1>1, LeastNumber
<1>3. PICK x \in S : u = k - x
  BY <1>2
<1>4. \A y \in S : y <= x
  <2> TAKE y \in S
  <2>1. k - x <= k - y
    BY <1>2, <1>3
  <2> QED BY <2>1
<1> QED BY <1>4

LEMMA SequenceIs ==
  ASSUME NEW s, IsSequence(s)
  PROVE  Len(s) \in Nat /\ DOMAIN s = 1..Len(s) /\ s = [i \in 1..Len(s) |-> s[i]]
BY LenProperties DEF IsSequence

LEMMA IsSequenceOf ==
  ASSUME NEW S, NEW s \in Seq(S)
  PROVE  IsSequence(s)
<1>1. s \in [1..Len(s) -> {s[i] : i \in DOMAIN s}] /\ Len(s) \in Nat
  BY LenProperties
<1> QED
  BY <1>1, SeqDef DEF IsSequence

LEMMA AppendIs ==
  ASSUME NEW s, IsSequence(s), NEW e
  PROVE  LET t == Append(s, e)
         IN  /\ IsSequence(t) /\ Len(t) = Len(s) + 1
             /\ t[Len(s) + 1] = e /\ \A i \in 1..Len(s) : t[i] = s[i]
<1> DEFINE S == {s[i] : i \in DOMAIN s} \cup {e}
           t == Append(s, e)
<1>1. s \in Seq(S) /\ e \in S
  <2>1. {s[i] : i \in DOMAIN s} \subseteq S
    OBVIOUS
  <2>2. s \in Seq({s[i] : i \in DOMAIN s})
    BY DEF IsSequence
  <2> QED BY <2>1, <2>2, SeqMonotonic
<1>2. /\ t \in Seq(S) /\ Len(t) = Len(s) + 1
      /\ t[Len(s) + 1] = e /\ \A i \in 1..Len(s) : t[i] = s[i]
  BY <1>1, AppendProperties, LenProperties
<1> QED BY <1>2, IsSequenceOf

LEMMA ConcatIs ==
  ASSUME NEW s, IsSequence(s), NEW r, IsSequence(r)
  PROVE  LET t == s \o r
         IN  /\ IsSequence(t) /\ Len(t) = Len(s) + Len(r)
             /\ \A i \in 1..Len(s) : t[i] = s[i]
             /\ \A i \in 1..Len(r) : t[Len(s) + i] = r[i]
<1> DEFINE S == {s[i] : i \in DOMAIN s} \cup {r[i] : i \in DOMAIN r}
           t == s \o r
<1>1. s \in Seq(S) /\ r \in Seq(S)
  <2>1. {s[i] : i \in DOMAIN s} \subseteq S /\ {r[i] : i \in DOMAIN r} \subseteq S
    OBVIOUS
  <2>2. s \in Seq({s[i] : i \in DOMAIN s}) /\ r \in Seq({r[i] : i \in DOMAIN r})
    BY DEF IsSequence
  <2> QED BY <2>1, <2>2, SeqMonotonic
<1>2. /\ t \in Seq(S) /\ Len(t) = Len(s) + Len(r)
      /\ \A i \in 1..(Len(s) + Len(r)) : t[i] = IF i <= Len(s) THEN s[i] ELSE r[i - Len(s)]
  BY <1>1, ConcatProperties
<1>4. Len(s) \in Nat /\ Len(r) \in Nat
  BY <1>1, LenProperties
<1>5. \A i \in 1..Len(r) : t[Len(s) + i] = r[i]
  <2> TAKE i \in 1..Len(r)
  <2>1. /\ Len(s) + i \in 1..(Len(s) + Len(r)) /\ ~(Len(s) + i <= Len(s))
        /\ (Len(s) + i) - Len(s) = i
    BY <1>4
  <2> QED BY <1>2, <2>1
<1>6. \A i \in 1..Len(s) : t[i] = s[i]
  BY <1>2, <1>4
<1> QED BY <1>1, <1>2, <1>5, <1>6, IsSequenceOf

-----------------------------------------------------------------------------
(* One event applied, component by component.                              *)
LEMMA CreatedApplied ==
  ASSUME NEW d, IsProjection(d), NEW n, NEW e, e.kind = "created"
  PROVE  LET p == Apply(d, n, e)
             r == [entity |-> e.entity, values |-> e.body.values]
         IN  /\ IsProjection(p)
             /\ p.records = Over(Entry(e.id, r), d.records)
             /\ p.since = Over(Entry(e.id, n), d.since)
             /\ p.links = d.links /\ p.comments = d.comments /\ p.tasks = d.tasks
BY DEF Apply, IsProjection

LEMMA WrittenTo ==
  ASSUME NEW d, IsProjection(d), IsMap(d.records), NEW x \in DOMAIN d.records, NEW w,
         NEW r, d.records[x] = [entity |-> r.entity, values |-> r.values]
  PROVE  LET p == WithValues(d, x, w)
         IN  /\ IsProjection(p) /\ IsMap(p.records) /\ DOMAIN p.records = DOMAIN d.records
             /\ p.records[x] = [entity |-> r.entity, values |-> Over(w, r.values)]
             /\ \A y \in DOMAIN d.records \ {x} : p.records[y] = d.records[y]
             /\ p.since = d.since /\ p.links = d.links /\ p.comments = d.comments
             /\ p.tasks = d.tasks
<1>1. [d.records EXCEPT ![x].values = Over(w, @)] =
        [d.records EXCEPT ![x] = [entity |-> r.entity, values |-> Over(w, r.values)]]
  BY DEF IsMap
<1> QED BY <1>1 DEF WithValues, IsProjection, IsMap

LEMMA UpdatedApplied ==
  ASSUME NEW d, IsProjection(d), IsMap(d.records), NEW n, NEW e, e.kind = "updated",
         e.id \in DOMAIN d.records,
         NEW r, d.records[e.id] = [entity |-> r.entity, values |-> r.values]
  PROVE  LET p == Apply(d, n, e)
         IN  /\ IsProjection(p) /\ IsMap(p.records) /\ DOMAIN p.records = DOMAIN d.records
             /\ p.records[e.id] = [entity |-> r.entity, values |-> Over(e.body, r.values)]
             /\ \A y \in DOMAIN d.records \ {e.id} : p.records[y] = d.records[y]
             /\ p.since = d.since /\ p.links = d.links /\ p.comments = d.comments
             /\ p.tasks = d.tasks
BY WrittenTo DEF Apply

LEMMA MovedApplied ==
  ASSUME NEW d, IsProjection(d), IsMap(d.records), NEW n, NEW e, e.kind = "moved",
         e.id \in DOMAIN d.records,
         NEW r, d.records[e.id] = [entity |-> r.entity, values |-> r.values]
  PROVE  LET p == Apply(d, n, e)
             w == Entry(StateField[e.entity], e.body)
         IN  /\ IsProjection(p) /\ IsMap(p.records) /\ DOMAIN p.records = DOMAIN d.records
             /\ p.records[e.id] = [entity |-> r.entity, values |-> Over(w, r.values)]
             /\ \A y \in DOMAIN d.records \ {e.id} : p.records[y] = d.records[y]
             /\ p.since = Over(Entry(e.id, n), d.since)
             /\ p.links = d.links /\ p.comments = d.comments /\ p.tasks = d.tasks
<1> DEFINE q == WithValues(d, e.id, Entry(StateField[e.entity], e.body))
<1>1. Apply(d, n, e) = [q EXCEPT !.since = Over(Entry(e.id, n), @)]
  BY DEF Apply
<1>2. /\ IsProjection(q) /\ IsMap(q.records) /\ DOMAIN q.records = DOMAIN d.records
      /\ q.records[e.id] =
           [entity |-> r.entity, values |-> Over(Entry(StateField[e.entity], e.body), r.values)]
      /\ \A y \in DOMAIN d.records \ {e.id} : q.records[y] = d.records[y]
      /\ q.since = d.since /\ q.links = d.links /\ q.comments = d.comments
      /\ q.tasks = d.tasks
  BY WrittenTo
<1> HIDE DEF q
<1> QED BY <1>1, <1>2 DEF IsProjection

LEMMA LinkedApplied ==
  ASSUME NEW d, IsProjection(d), NEW n, NEW e, e.kind = "linked"
  PROVE  LET p == Apply(d, n, e)
         IN  /\ IsProjection(p) /\ p.records = d.records /\ p.since = d.since
             /\ p.links = d.links \cup {e.body.fact}
             /\ p.comments = d.comments /\ p.tasks = d.tasks
BY DEF Apply, IsProjection

LEMMA UnlinkedApplied ==
  ASSUME NEW d, IsProjection(d), NEW n, NEW e, e.kind = "unlinked"
  PROVE  LET p == Apply(d, n, e)
         IN  /\ IsProjection(p) /\ p.records = d.records /\ p.since = d.since
             /\ p.links = d.links \ {e.body.fact}
             /\ p.comments = d.comments /\ p.tasks = d.tasks
BY DEF Apply, IsProjection

LEMMA CommentApplied ==
  ASSUME NEW d, IsProjection(d), NEW n, NEW e, e.kind = "comment"
  PROVE  LET p == Apply(d, n, e)
         IN  /\ IsProjection(p) /\ p.records = d.records /\ p.since = d.since
             /\ p.links = d.links /\ p.tasks = d.tasks
             /\ p.comments = d.comments \cup {Posted(2 * n, n, e)}
BY DEF Apply, IsProjection

LEMMA TaskApplied ==
  ASSUME NEW d, IsProjection(d), NEW n, NEW e, e.kind = "task"
  PROVE  LET p == Apply(d, n, e)
         IN  /\ IsProjection(p) /\ p.records = d.records /\ p.since = d.since
             /\ p.links = d.links /\ p.comments = d.comments
             /\ p.tasks = d.tasks \cup {n}
BY DEF Apply, IsProjection

LEMMA CommentProjected ==
  ASSUME NEW d, IsProjection(d), NEW n, NEW e, e.kind = "comment"
  PROVE  LET p == Project(d, n, e)
         IN  /\ IsProjection(p) /\ p.records = d.records /\ p.since = d.since
             /\ p.links = d.links /\ p.tasks = d.tasks
             /\ p.comments = d.comments \cup {Posted(2 * n - 1, n, e)}
BY DEF Project, IsProjection

-----------------------------------------------------------------------------
(* One more event told.  A component that has nothing of it stays told.    *)
LEMMA BornStay ==
  ASSUME NEW j, NEW T, NEW n, j[n].kind # "created"
  PROVE  Born(j, T \cup {n}) = Born(j, T)
BY DEF Born

LEMMA RecordsStay ==
  ASSUME NEW j, NEW T, NEW n, j[n].kind # "created", NEW d, NEW p,
         p.records = d.records, RecordsTold(j, T, d)
  PROVE  RecordsTold(j, T \cup {n}, p)
BY BornStay DEF RecordsTold

LEMMA SinceStay ==
  ASSUME NEW j, NEW T, NEW n, j[n].kind \notin {"created", "moved"}, NEW d, NEW p,
         p.since = d.since, DOMAIN p.records = DOMAIN d.records, SinceTold(j, T, d)
  PROVE  SinceTold(j, T \cup {n}, p)
BY DEF SinceTold, Enters

LEMMA LinksStay ==
  ASSUME NEW j, NEW T, NEW n, j[n].kind \notin {"linked", "unlinked"}, NEW d, NEW p,
         p.links = d.links, LinksTold(j, T, d)
  PROVE  LinksTold(j, T \cup {n}, p)
BY DEF LinksTold

LEMMA CommentsStay ==
  ASSUME NEW j, NEW T, NEW n, j[n].kind # "comment", NEW d, NEW p,
         p.comments = d.comments, CommentsTold(j, T, d)
  PROVE  CommentsTold(j, T \cup {n}, p)
BY DEF CommentsTold

LEMMA TasksStay ==
  ASSUME NEW j, NEW T, NEW n, j[n].kind # "task", NEW d, NEW p,
         p.tasks = d.tasks, TasksTold(j, T, d)
  PROVE  TasksTold(j, T \cup {n}, p)
BY DEF TasksTold

LEMMA CreatedKeeps ==
  ASSUME NEW j, NEW T \in SUBSET Nat, NEW d, Told(j, T, d), NEW n \in Nat,
         j[n].kind = "created", \A m \in T : ~Enters(j[m], j[n].id),
         NEW e, e.kind = "created", e.id = j[n].id, e.entity = j[n].entity,
         IsMap(e.body.values)
  PROVE  Told(j, T \cup {n}, Apply(d, n, e))
<1> DEFINE p == Apply(d, n, e)
           U == T \cup {n}
           r == [entity |-> e.entity, values |-> e.body.values]
<1>1. /\ IsProjection(p)
      /\ p.records = Over(Entry(e.id, r), d.records)
      /\ p.since = Over(Entry(e.id, n), d.since)
      /\ p.links = d.links /\ p.comments = d.comments /\ p.tasks = d.tasks
  BY CreatedApplied DEF Told
<1>2. Born(j, U) = Born(j, T) \cup {n}
  BY DEF Born
<1>3. \A m \in Born(j, T) : j[m].id # e.id
  BY DEF Born, Enters
<1> HIDE DEF p
<1>4. RecordsTold(j, U, p)
  <2>1. /\ IsMap(p.records) /\ DOMAIN p.records = DOMAIN d.records \cup {e.id}
        /\ p.records[e.id] = r
        /\ \A y \in DOMAIN d.records \ {e.id} : p.records[y] = d.records[y]
    BY <1>1 DEF Over, Entry, IsMap
  <2>2. DOMAIN d.records = {j[m].id : m \in Born(j, T)}
    BY DEF Told, RecordsTold
  <2>3. DOMAIN p.records = {j[m].id : m \in Born(j, U)}
    <3>1. {j[m].id : m \in Born(j, T) \cup {n}} = {j[m].id : m \in Born(j, T)} \cup {j[n].id}
      OBVIOUS
    <3> QED BY ONLY e.id = j[n].id, <1>2, <2>1, <2>2, <3>1
  <2>4. \A m \in Born(j, T) :
          LET s == p.records[j[m].id]
          IN  s = [entity |-> j[m].entity, values |-> s.values] /\ IsMap(s.values)
    BY <1>3, <2>1, <2>2 DEF Told, RecordsTold
  <2>5. LET s == p.records[j[n].id]
        IN  s = [entity |-> j[n].entity, values |-> s.values] /\ IsMap(s.values)
    BY <2>1
  <2> QED BY <1>2, <2>1, <2>3, <2>4, <2>5 DEF RecordsTold
<1>5. SinceTold(j, U, p)
  <2>1. /\ IsMap(p.since) /\ DOMAIN p.since = DOMAIN d.since \cup {e.id}
        /\ p.since[e.id] = n
        /\ \A y \in DOMAIN d.since \ {e.id} : p.since[y] = d.since[y]
    BY <1>1 DEF Over, Entry, IsMap
  <2>2. DOMAIN p.records = DOMAIN d.records \cup {e.id}
    BY <1>1 DEF Over, Entry
  <2>3. \A x \in DOMAIN p.since :
          p.since[x] \in U /\ Enters(j[p.since[x]], x)
    <3> TAKE x \in DOMAIN p.since
    <3>1. CASE x = e.id
      BY <2>1, <3>1 DEF Enters
    <3>2. CASE x # e.id
      BY <2>1, <3>2 DEF Told, SinceTold, Enters
    <3> QED BY <3>1, <3>2
  <2> QED BY <2>1, <2>2, <2>3 DEF SinceTold, Told
<1>6. LinksTold(j, U, p) /\ CommentsTold(j, U, p) /\ TasksTold(j, U, p)
  BY <1>1, LinksStay, CommentsStay, TasksStay DEF Told
<1> QED BY <1>1, <1>4, <1>5, <1>6 DEF Told, p

LEMMA RecordsWritten ==
  ASSUME NEW j, NEW T, NEW n, j[n].kind # "created", NEW d, NEW p, RecordsTold(j, T, d),
         NEW x \in DOMAIN d.records, NEW w,
         IsMap(p.records), DOMAIN p.records = DOMAIN d.records,
         p.records[x] = [entity |-> d.records[x].entity,
                         values |-> Over(w, d.records[x].values)],
         \A y \in DOMAIN d.records \ {x} : p.records[y] = d.records[y]
  PROVE  RecordsTold(j, T \cup {n}, p)
<1>1. Born(j, T \cup {n}) = Born(j, T)
  BY BornStay
<1>2. DOMAIN p.records = {j[m].id : m \in Born(j, T)}
  BY DEF RecordsTold
<1>3. ASSUME NEW m \in Born(j, T)
      PROVE  LET r == p.records[j[m].id]
             IN  r = [entity |-> j[m].entity, values |-> r.values] /\ IsMap(r.values)
  <2>1. LET r == d.records[j[m].id]
        IN  r = [entity |-> j[m].entity, values |-> r.values] /\ IsMap(r.values)
    BY DEF RecordsTold
  <2>2. CASE j[m].id = x
    <3>1. d.records[x].entity = j[m].entity
      BY <2>1, <2>2
    <3>2. IsMap(Over(w, d.records[x].values))
      BY DEF IsMap, Over
    <3> QED BY <2>2, <3>1, <3>2
  <2>3. CASE j[m].id # x
    <3>1. p.records[j[m].id] = d.records[j[m].id]
      BY <1>2, <2>3
    <3> QED BY <2>1, <3>1
  <2> QED BY <2>2, <2>3
<1> QED BY <1>1, <1>2, <1>3 DEF RecordsTold

LEMMA RecordIs ==
  ASSUME NEW j, NEW T, NEW d, RecordsTold(j, T, d), NEW x \in DOMAIN d.records
  PROVE  /\ d.records[x] = [entity |-> d.records[x].entity, values |-> d.records[x].values]
         /\ IsMap(d.records[x].values)
<1>1. PICK b \in Born(j, T) : j[b].id = x
  BY DEF RecordsTold
<1>2. LET r == d.records[x] IN r = [entity |-> j[b].entity, values |-> r.values] /\ IsMap(r.values)
  BY <1>1 DEF RecordsTold
<1> QED BY <1>1, <1>2

LEMMA RecordBorn ==
  ASSUME NEW j, NEW T, NEW d, RecordsTold(j, T, d), NEW x \in DOMAIN d.records
  PROVE  \E b \in Born(j, T) : j[b].id = x /\ j[b].entity = d.records[x].entity
<1>1. PICK b \in Born(j, T) : j[b].id = x
  BY DEF RecordsTold
<1>2. LET r == d.records[x] IN r = [entity |-> j[b].entity, values |-> r.values]
  BY <1>1 DEF RecordsTold
<1>3. d.records[x].entity = j[b].entity
  BY <1>2
<1> QED BY <1>1, <1>3

LEMMA UpdatedKeeps ==
  ASSUME NEW j, NEW T \in SUBSET Nat, NEW d, Told(j, T, d), NEW n \in Nat,
         j[n].kind = "updated", j[n].id \in DOMAIN d.records,
         NEW e, e.kind = "updated", e.id = j[n].id
  PROVE  Told(j, T \cup {n}, Apply(d, n, e))
<1> DEFINE p == Apply(d, n, e)
           x == j[n].id
           r == d.records[x]
<1>1. r = [entity |-> r.entity, values |-> r.values]
  BY RecordIs DEF Told
<1>2. /\ IsProjection(p) /\ IsMap(p.records) /\ DOMAIN p.records = DOMAIN d.records
      /\ p.records[x] = [entity |-> r.entity, values |-> Over(e.body, r.values)]
      /\ \A y \in DOMAIN d.records \ {x} : p.records[y] = d.records[y]
      /\ p.since = d.since /\ p.links = d.links /\ p.comments = d.comments
      /\ p.tasks = d.tasks
  BY <1>1, UpdatedApplied DEF Told, RecordsTold
<1> HIDE DEF p
<1>3. RecordsTold(j, T \cup {n}, p)
  <2>1. RecordsTold(j, T, d) /\ j[n].kind # "created" /\ x \in DOMAIN d.records
    BY DEF Told
  <2> HIDE DEF x
  <2> QED BY <1>2, <2>1, RecordsWritten
<1>4. SinceTold(j, T \cup {n}, p) /\ LinksTold(j, T \cup {n}, p)
      /\ CommentsTold(j, T \cup {n}, p) /\ TasksTold(j, T \cup {n}, p)
  BY <1>2, SinceStay, LinksStay, CommentsStay, TasksStay DEF Told
<1> QED BY <1>2, <1>3, <1>4 DEF Told, p

LEMMA MovedKeeps ==
  ASSUME NEW j, NEW T \in SUBSET Nat, NEW d, Told(j, T, d), NEW n \in Nat,
         j[n].kind = "moved", j[n].id \in DOMAIN d.records,
         NEW e, e.kind = "moved", e.id = j[n].id
  PROVE  Told(j, T \cup {n}, Apply(d, n, e))
<1> DEFINE p == Apply(d, n, e)
           x == j[n].id
           r == d.records[x]
           w == Entry(StateField[e.entity], e.body)
<1>1. r = [entity |-> r.entity, values |-> r.values]
  BY RecordIs DEF Told
<1>2. /\ IsProjection(p) /\ IsMap(p.records) /\ DOMAIN p.records = DOMAIN d.records
      /\ p.records[x] = [entity |-> r.entity, values |-> Over(w, r.values)]
      /\ \A y \in DOMAIN d.records \ {x} : p.records[y] = d.records[y]
      /\ p.since = Over(Entry(x, n), d.since)
      /\ p.links = d.links /\ p.comments = d.comments /\ p.tasks = d.tasks
  BY <1>1, MovedApplied DEF Told, RecordsTold
<1> HIDE DEF p
<1>3. RecordsTold(j, T \cup {n}, p)
  <2>1. RecordsTold(j, T, d) /\ j[n].kind # "created" /\ x \in DOMAIN d.records
    BY DEF Told
  <2>2. /\ IsMap(p.records) /\ DOMAIN p.records = DOMAIN d.records
        /\ p.records[x] = [entity |-> d.records[x].entity, values |-> Over(w, d.records[x].values)]
        /\ \A y \in DOMAIN d.records \ {x} : p.records[y] = d.records[y]
    BY ONLY <1>2
  <2> HIDE DEF x, w
  <2> QED BY ONLY <2>1, <2>2, RecordsWritten
<1>4. SinceTold(j, T \cup {n}, p)
  <2>1. /\ IsMap(p.since) /\ DOMAIN p.since = DOMAIN d.since \cup {x}
        /\ p.since[x] = n
        /\ \A y \in DOMAIN d.since \ {x} : p.since[y] = d.since[y]
    BY <1>2 DEF Over, Entry, IsMap
  <2>2. DOMAIN d.since = DOMAIN d.records
    BY DEF Told, SinceTold
  <2>3. ASSUME NEW y \in DOMAIN p.since
        PROVE  p.since[y] \in T \cup {n} /\ Enters(j[p.since[y]], y)
    <3>1. CASE y = x
      BY <2>1, <3>1 DEF Enters
    <3>2. CASE y # x
      BY <2>1, <3>2 DEF Told, SinceTold, Enters
    <3> QED BY <3>1, <3>2
  <2> QED BY <1>2, <2>1, <2>2, <2>3 DEF SinceTold
<1>5. LinksTold(j, T \cup {n}, p)
      /\ CommentsTold(j, T \cup {n}, p) /\ TasksTold(j, T \cup {n}, p)
  BY <1>2, LinksStay, CommentsStay, TasksStay DEF Told
<1> QED BY <1>2, <1>3, <1>4, <1>5 DEF Told, p

LEMMA LinkedKeeps ==
  ASSUME NEW j, NEW T \in SUBSET Nat, NEW d, Told(j, T, d), NEW n \in Nat,
         j[n].kind \in {"linked", "unlinked"}, \A m \in T : m < n
  PROVE  Told(j, T \cup {n}, Apply(d, n, j[n]))
<1> DEFINE p == Apply(d, n, j[n])
<1>1. /\ IsProjection(p) /\ p.records = d.records /\ p.since = d.since
      /\ j[n].kind = "linked" => p.links = d.links \cup {j[n].body.fact}
      /\ j[n].kind = "unlinked" => p.links = d.links \ {j[n].body.fact}
      /\ p.comments = d.comments /\ p.tasks = d.tasks
  <2>1. IsProjection(d)
    BY DEF Told
  <2>2. CASE j[n].kind = "linked"
    BY <2>1, <2>2, LinkedApplied
  <2>3. CASE j[n].kind = "unlinked"
    BY <2>1, <2>3, UnlinkedApplied
  <2> QED BY <2>2, <2>3
<1> HIDE DEF p
<1>2. LinksTold(j, T \cup {n}, p)
  <2>1. ASSUME NEW l
        PROVE  l \in p.links <=>
                 \E k \in T \cup {n} :
                   /\ j[k].kind = "linked" /\ j[k].body.fact = l
                   /\ \A m \in T \cup {n} : m > k /\ j[m].kind = "unlinked" => j[m].body.fact # l
    <3>1. l \in d.links <=>
            \E k \in T : /\ j[k].kind = "linked" /\ j[k].body.fact = l
                         /\ \A m \in T : m > k /\ j[m].kind = "unlinked" => j[m].body.fact # l
      BY DEF Told, LinksTold
    <3>2. CASE j[n].kind = "linked" /\ l # j[n].body.fact
      BY <1>1, <3>1, <3>2
    <3>3. CASE j[n].kind = "linked" /\ l = j[n].body.fact
      BY <1>1, <3>3
    <3>4. CASE j[n].kind = "unlinked" /\ l # j[n].body.fact
      BY <1>1, <3>1, <3>4
    <3>5. CASE j[n].kind = "unlinked" /\ l = j[n].body.fact
      BY <1>1, <3>5
    <3> QED BY <3>2, <3>3, <3>4, <3>5
  <2> QED BY <2>1 DEF LinksTold
<1>3. /\ RecordsTold(j, T \cup {n}, p) /\ SinceTold(j, T \cup {n}, p)
      /\ CommentsTold(j, T \cup {n}, p) /\ TasksTold(j, T \cup {n}, p)
  BY <1>1, RecordsStay, SinceStay, CommentsStay, TasksStay DEF Told
<1> QED BY <1>1, <1>2, <1>3 DEF Told, p

(* A comment, with the id of its handler or that of its event.             *)
LEMMA CommentKeeps ==
  ASSUME NEW j, NEW T \in SUBSET Nat, NEW d, Told(j, T, d), NEW n \in Nat \ T,
         j[n].kind = "comment", NEW p, NEW cid \in {2 * n - 1, 2 * n},
         IsProjection(p), p.records = d.records, p.since = d.since,
         p.links = d.links, p.tasks = d.tasks,
         p.comments = d.comments \cup {Posted(cid, n, j[n])}
  PROVE  Told(j, T \cup {n}, p)
<1>1. CommentsTold(j, T \cup {n}, p)
  <2> DEFINE c == Posted(cid, n, j[n])
  <2>1. c.event = n /\ c.id = cid /\ c = Posted(c.id, c.event, j[c.event])
    BY DEF Posted
  <2>2. \A b \in d.comments : b.event # n
    BY DEF Told, CommentsTold
  <2> HIDE DEF c
  <2>3. p.comments = d.comments \cup {c}
    BY DEF c
  <2> QED BY <2>1, <2>2, <2>3 DEF Told, CommentsTold
<1>2. /\ RecordsTold(j, T \cup {n}, p) /\ SinceTold(j, T \cup {n}, p)
      /\ LinksTold(j, T \cup {n}, p) /\ TasksTold(j, T \cup {n}, p)
  BY RecordsStay, SinceStay, LinksStay, TasksStay DEF Told
<1> QED BY <1>1, <1>2 DEF Told

LEMMA TaskKeeps ==
  ASSUME NEW j, NEW T \in SUBSET Nat, NEW d, Told(j, T, d), NEW n \in Nat,
         j[n].kind = "task", NEW p,
         IsProjection(p), p.records = d.records, p.since = d.since,
         p.links = d.links, p.comments = d.comments, p.tasks = d.tasks \cup {n}
  PROVE  Told(j, T \cup {n}, p)
<1>1. /\ RecordsTold(j, T \cup {n}, p) /\ SinceTold(j, T \cup {n}, p)
      /\ LinksTold(j, T \cup {n}, p) /\ CommentsTold(j, T \cup {n}, p)
  BY RecordsStay, SinceStay, LinksStay, CommentsStay DEF Told
<1>2. TasksTold(j, T \cup {n}, p)
  BY DEF Told, TasksTold
<1> QED BY <1>1, <1>2 DEF Told

Kinds == {"created", "updated", "moved", "linked", "unlinked", "comment", "task"}

(* Event n comes after those told, and what it writes to is there.         *)
Follows(j, T, d, n) ==
  /\ n \in Nat /\ j[n].kind \in Kinds /\ \A m \in T : m < n
  /\ j[n].kind = "created" =>
       IsMap(j[n].body.values) /\ \A m \in T : ~Enters(j[m], j[n].id)
  /\ j[n].kind \in {"updated", "moved"} => j[n].id \in DOMAIN d.records

LEMMA ApplyKeeps ==
  ASSUME NEW j, NEW T \in SUBSET Nat, NEW d, Told(j, T, d), NEW n, Follows(j, T, d, n)
  PROVE  Told(j, T \cup {n}, Apply(d, n, j[n]))
<1>0. n \in Nat \ T /\ IsProjection(d)
  BY DEF Follows, Told
<1>1. CASE j[n].kind = "created"
  BY <1>0, <1>1, CreatedKeeps DEF Follows
<1>2. CASE j[n].kind = "updated"
  BY <1>0, <1>2, UpdatedKeeps DEF Follows
<1>3. CASE j[n].kind = "moved"
  BY <1>0, <1>3, MovedKeeps DEF Follows
<1>4. CASE j[n].kind \in {"linked", "unlinked"}
  BY <1>0, <1>4, LinkedKeeps DEF Follows
<1>5. CASE j[n].kind = "comment"
  <2> DEFINE p == Apply(d, n, j[n])
  <2>1. /\ IsProjection(p) /\ p.records = d.records /\ p.since = d.since
        /\ p.links = d.links /\ p.tasks = d.tasks
        /\ p.comments = d.comments \cup {Posted(2 * n, n, j[n])}
    BY <1>0, <1>5, CommentApplied
  <2>2. 2 * n \in {2 * n - 1, 2 * n}
    OBVIOUS
  <2> HIDE DEF p
  <2>3. Told(j, T \cup {n}, p)
    BY <1>0, <1>5, <2>1, <2>2, CommentKeeps
  <2> QED BY <2>3 DEF p
<1>6. CASE j[n].kind = "task"
  <2> DEFINE p == Apply(d, n, j[n])
  <2>1. /\ IsProjection(p) /\ p.records = d.records /\ p.since = d.since
        /\ p.links = d.links /\ p.comments = d.comments /\ p.tasks = d.tasks \cup {n}
    BY <1>0, <1>6, TaskApplied
  <2> HIDE DEF p
  <2>2. Told(j, T \cup {n}, p)
    BY <1>0, <1>6, <2>1, TaskKeeps
  <2> QED BY <2>2 DEF p
<1> QED BY <1>1, <1>2, <1>3, <1>4, <1>5, <1>6 DEF Follows, Kinds

LEMMA ProjectKeeps ==
  ASSUME NEW j, NEW T \in SUBSET Nat, NEW d, Told(j, T, d), NEW n, Follows(j, T, d, n)
  PROVE  Told(j, T \cup {n}, Project(d, n, j[n]))
<1>1. CASE j[n].kind = "comment"
  <2>1. n \in Nat \ T /\ IsProjection(d)
    BY DEF Follows, Told
  <2> QED BY <1>1, <2>1, CommentProjected, CommentKeeps
<1>2. CASE j[n].kind # "comment"
  BY <1>2, ApplyKeeps DEF Project
<1> QED BY <1>1, <1>2

-----------------------------------------------------------------------------
(* Values, as one more event is told.                                      *)
LEMMA ValuesStay ==
  ASSUME NEW j, NEW T, NEW n, NEW x, NEW v, ValuesTold(j, T, x, v),
         j[n].id # x \/ DOMAIN Wrote(j[n]) = {}
  PROVE  ValuesTold(j, T \cup {n}, x, v)
<1>1. \A m \in T \cup {n} :
        j[m].id = x => DOMAIN Wrote(j[m]) \subseteq DOMAIN v
  BY DEF ValuesTold
<1>2. ASSUME NEW f \in DOMAIN v
      PROVE  \E m \in T \cup {n} :
               /\ j[m].id = x /\ f \in DOMAIN Wrote(j[m]) /\ v[f] = Wrote(j[m])[f]
               /\ \A k \in T \cup {n} : j[k].id = x /\ f \in DOMAIN Wrote(j[k]) => k <= m
  BY DEF ValuesTold
<1> QED BY <1>1, <1>2 DEF ValuesTold

LEMMA ValuesBorn ==
  ASSUME NEW j, NEW T, NEW n \in Nat, NEW x, NEW v, j[n].id = x, v = Wrote(j[n]),
         \A m \in T : j[m].id = x => DOMAIN Wrote(j[m]) = {}
  PROVE  ValuesTold(j, T \cup {n}, x, v)
<1>1. \A m \in T \cup {n} :
        j[m].id = x => DOMAIN Wrote(j[m]) \subseteq DOMAIN v
  OBVIOUS
<1>2. ASSUME NEW f \in DOMAIN v
      PROVE  \E m \in T \cup {n} :
               /\ j[m].id = x /\ f \in DOMAIN Wrote(j[m]) /\ v[f] = Wrote(j[m])[f]
               /\ \A k \in T \cup {n} : j[k].id = x /\ f \in DOMAIN Wrote(j[k]) => k <= m
  OBVIOUS
<1> QED BY <1>1, <1>2 DEF ValuesTold

LEMMA ValuesWritten ==
  ASSUME NEW j, NEW T, NEW n \in Nat, NEW x, NEW v, ValuesTold(j, T, x, v),
         j[n].id = x, \A m \in T : j[m].id = x => m <= n \/ DOMAIN Wrote(j[m]) = {}
  PROVE  ValuesTold(j, T \cup {n}, x, Over(Wrote(j[n]), v))
<1> DEFINE w == Wrote(j[n])
           u == Over(w, v)
<1>1. /\ DOMAIN u = DOMAIN w \cup DOMAIN v
      /\ \A f \in DOMAIN w : u[f] = w[f]
      /\ \A f \in DOMAIN v \ DOMAIN w : u[f] = v[f]
  BY DEF Over
<1> HIDE DEF u
<1>2. \A m \in T \cup {n} :
        j[m].id = x => DOMAIN Wrote(j[m]) \subseteq DOMAIN u
  BY <1>1 DEF ValuesTold
<1>3. ASSUME NEW f \in DOMAIN u
      PROVE  \E m \in T \cup {n} :
               /\ j[m].id = x /\ f \in DOMAIN Wrote(j[m]) /\ u[f] = Wrote(j[m])[f]
               /\ \A k \in T \cup {n} : j[k].id = x /\ f \in DOMAIN Wrote(j[k]) => k <= m
  <2>1. CASE f \in DOMAIN w
    <3>1. \A k \in T \cup {n} : j[k].id = x /\ f \in DOMAIN Wrote(j[k]) => k <= n
      OBVIOUS
    <3> QED BY <1>1, <2>1, <3>1
  <2>2. CASE f \notin DOMAIN w
    <3>1. f \in DOMAIN v /\ u[f] = v[f]
      BY <1>1, <2>2
    <3>2. PICK m \in T :
            /\ j[m].id = x /\ f \in DOMAIN Wrote(j[m]) /\ v[f] = Wrote(j[m])[f]
            /\ \A k \in T : j[k].id = x /\ f \in DOMAIN Wrote(j[k]) => k <= m
      BY <3>1 DEF ValuesTold
    <3>3. \A k \in T \cup {n} : j[k].id = x /\ f \in DOMAIN Wrote(j[k]) => k <= m
      BY <2>2, <3>2
    <3> QED BY ONLY <3>1, <3>2, <3>3
  <2> QED BY <2>1, <2>2
<1> QED BY <1>2, <1>3 DEF ValuesTold, u

(* Two projections told the same of a record hold the same values.         *)
LEMMA ValuesSame ==
  ASSUME NEW j, NEW i, NEW T \in SUBSET Nat, NEW U \in SUBSET Nat, NEW x, NEW v, NEW w,
         IsMap(v), IsMap(w), ValuesTold(j, T, x, v), ValuesTold(i, U, x, w),
         \A n \in T : j[n].id = x /\ DOMAIN Wrote(j[n]) # {} => n \in U /\ i[n] = j[n],
         \A n \in U : i[n].id = x /\ DOMAIN Wrote(i[n]) # {} => n \in T /\ i[n] = j[n]
  PROVE  v = w
<1>1. DOMAIN v = DOMAIN w
  <2>1. ASSUME NEW f \in DOMAIN v PROVE f \in DOMAIN w
    <3>1. PICK m \in T : j[m].id = x /\ f \in DOMAIN Wrote(j[m])
      BY DEF ValuesTold
    <3> QED BY <3>1 DEF ValuesTold
  <2>2. ASSUME NEW f \in DOMAIN w PROVE f \in DOMAIN v
    <3>1. PICK m \in U : i[m].id = x /\ f \in DOMAIN Wrote(i[m])
      BY DEF ValuesTold
    <3> QED BY <3>1 DEF ValuesTold
  <2> QED BY <2>1, <2>2
<1>2. ASSUME NEW f \in DOMAIN v
      PROVE  v[f] = w[f]
  <2>1. PICK m \in T :
          /\ j[m].id = x /\ f \in DOMAIN Wrote(j[m]) /\ v[f] = Wrote(j[m])[f]
          /\ \A k \in T : j[k].id = x /\ f \in DOMAIN Wrote(j[k]) => k <= m
    BY DEF ValuesTold
  <2>2. PICK n \in U :
          /\ i[n].id = x /\ f \in DOMAIN Wrote(i[n]) /\ w[f] = Wrote(i[n])[f]
          /\ \A k \in U : i[k].id = x /\ f \in DOMAIN Wrote(i[k]) => k <= n
    BY <1>1 DEF ValuesTold
  <2>3. m <= n /\ n <= m
    BY <2>1, <2>2
  <2>4. m = n
    BY <2>3
  <2> QED BY <2>1, <2>2, <2>4
<1> QED BY <1>1, <1>2 DEF IsMap

(* Event n is the last of those told that writes to its record.            *)
Succeeds(j, T, d, n) ==
  /\ n \in Nat /\ j[n].kind \in Kinds
  /\ j[n].kind \in {"updated", "moved"} =>
       /\ j[n].id \in DOMAIN d.records
       /\ \A m \in T : j[m].id = j[n].id =>
            m <= n \/ j[m].kind \notin {"created", "updated", "moved"}

LEMMA FollowsSucceeds ==
  ASSUME NEW j, NEW T \in SUBSET Nat, NEW d, NEW n, Follows(j, T, d, n)
  PROVE  Succeeds(j, T, d, n)
BY DEF Follows, Succeeds

LEMMA WroteNothing ==
  ASSUME NEW e, e.kind \notin {"created", "updated", "moved"}
  PROVE  DOMAIN Wrote(e) = {}
BY DEF Wrote

LEMMA SinceApplied ==
  ASSUME NEW j, NEW T \in SUBSET Nat, NEW d, Told(j, T, d), NEW n, Succeeds(j, T, d, n),
         NEW x \in DOMAIN d.records, SinceLast(j, T, d, x),
         j[n].kind = "created" => j[n].id # x
  PROVE  SinceLast(j, T \cup {n}, Apply(d, n, j[n]), x)
<1> DEFINE p == Apply(d, n, j[n])
           r == d.records[j[n].id]
           w == Entry(StateField[j[n].entity], j[n].body)
<1>0. /\ IsProjection(d) /\ IsMap(d.records) /\ n \in Nat
      /\ DOMAIN d.since = DOMAIN d.records /\ d.since[x] \in Nat
  BY DEF Told, RecordsTold, SinceTold, Succeeds
<1>1. CASE Enters(j[n], x)
  <2>1. j[n].kind = "moved" /\ j[n].id = x /\ r = [entity |-> r.entity, values |-> r.values]
    BY <1>1, RecordIs DEF Told, Enters
  <2>2. /\ p.records[j[n].id] = [entity |-> r.entity, values |-> Over(w, r.values)]
        /\ p.since = Over(Entry(j[n].id, n), d.since)
    BY <1>0, <2>1, MovedApplied
  <2>3. p.since[x] = n
    BY <2>1, <2>2 DEF Over, Entry
  <2>4. \A m \in T : Enters(j[m], x) => m <= n
    BY <2>1 DEF Succeeds, Enters
  <2> QED BY <1>0, <2>3, <2>4 DEF SinceLast
<1>2. CASE ~Enters(j[n], x)
  <2>1. CASE j[n].kind = "created"
    <3>1. p.since = Over(Entry(j[n].id, n), d.since)
      BY <1>0, <2>1, CreatedApplied
    <3>2. p.since[x] = d.since[x]
      BY <1>0, <2>1, <3>1 DEF Over, Entry
    <3> QED BY <1>2, <3>2 DEF SinceLast
  <2>2. CASE j[n].kind = "moved"
    <3>1. j[n].id \in DOMAIN d.records /\ r = [entity |-> r.entity, values |-> r.values]
      BY <2>2, RecordIs DEF Told, Succeeds
    <3>2. /\ p.records[j[n].id] = [entity |-> r.entity, values |-> Over(w, r.values)]
          /\ p.since = Over(Entry(j[n].id, n), d.since)
      BY <1>0, <2>2, <3>1, MovedApplied
    <3>3. p.since[x] = d.since[x]
      BY <1>0, <1>2, <2>2, <3>2 DEF Over, Entry, Enters
    <3> QED BY <1>2, <3>3 DEF SinceLast
  <2>3. CASE j[n].kind = "updated"
    <3>1. j[n].id \in DOMAIN d.records /\ r = [entity |-> r.entity, values |-> r.values]
      BY <2>3, RecordIs DEF Told, Succeeds
    <3>2. /\ p.records[j[n].id] = [entity |-> r.entity, values |-> Over(j[n].body, r.values)]
          /\ p.since = d.since
      BY <1>0, <2>3, <3>1, UpdatedApplied
    <3> QED BY <1>2, <3>2 DEF SinceLast
  <2>4. CASE j[n].kind \in {"linked", "unlinked", "comment", "task"}
    <3>1. p.since = d.since
      BY <1>0, <2>4, LinkedApplied, UnlinkedApplied, CommentApplied, TaskApplied
    <3> QED BY <1>2, <3>1 DEF SinceLast
  <2> QED BY <2>1, <2>2, <2>3, <2>4 DEF Succeeds, Kinds
<1> QED BY <1>1, <1>2

LEMMA ValuesApplied ==
  ASSUME NEW j, NEW T \in SUBSET Nat, NEW d, Told(j, T, d), NEW n, Succeeds(j, T, d, n),
         NEW x \in DOMAIN d.records, AsTold(j, T, d, x),
         j[n].kind = "created" => j[n].id # x
  PROVE  /\ x \in DOMAIN Apply(d, n, j[n]).records
         /\ Apply(d, n, j[n]).records[x].entity = d.records[x].entity
         /\ AsTold(j, T \cup {n}, Apply(d, n, j[n]), x)
<1> DEFINE p == Apply(d, n, j[n])
           r == d.records[j[n].id]
<1>0. IsProjection(d) /\ IsMap(d.records) /\ n \in Nat
  BY DEF Told, RecordsTold, Succeeds
<1> SUFFICES /\ x \in DOMAIN p.records /\ p.records[x].entity = d.records[x].entity
             /\ ValuesTold(j, T \cup {n}, x, p.records[x].values)
  BY SinceApplied DEF AsTold
<1>5. ValuesTold(j, T, x, d.records[x].values)
  BY DEF AsTold
<1>6. j[n].kind \in {"updated", "moved"} /\ j[n].id = x =>
        \A m \in T : j[m].id = x => m <= n \/ DOMAIN Wrote(j[m]) = {}
  BY WroteNothing DEF Succeeds
<1>1. CASE j[n].kind = "created"
  <2>1. p.records = Over(Entry(j[n].id, [entity |-> j[n].entity, values |-> j[n].body.values]), d.records)
    BY <1>0, <1>1, CreatedApplied
  <2>2. x \in DOMAIN p.records /\ p.records[x] = d.records[x]
    BY <1>1, <2>1 DEF Over, Entry
  <2> QED BY <1>1, <1>5, <2>2, ValuesStay
<1>2. CASE j[n].kind = "updated"
  <2>1. j[n].id \in DOMAIN d.records /\ r = [entity |-> r.entity, values |-> r.values]
    BY <1>2, RecordIs DEF Told, Succeeds
  <2>2. /\ DOMAIN p.records = DOMAIN d.records
        /\ p.records[j[n].id] = [entity |-> r.entity, values |-> Over(j[n].body, r.values)]
        /\ \A y \in DOMAIN d.records \ {j[n].id} : p.records[y] = d.records[y]
    BY <1>0, <1>2, <2>1, UpdatedApplied
  <2>3. Wrote(j[n]) = j[n].body
    BY <1>2 DEF Wrote
  <2>4. CASE j[n].id = x
    <3>1. ValuesTold(j, T \cup {n}, x, Over(Wrote(j[n]), d.records[x].values))
      BY <1>0, <1>2, <1>5, <1>6, <2>4, ValuesWritten
    <3>2. p.records[x].values = Over(Wrote(j[n]), d.records[x].values)
      BY <2>2, <2>3, <2>4
    <3> QED BY <2>2, <2>4, <3>1, <3>2
  <2>5. CASE j[n].id # x
    BY <1>5, <2>2, <2>5, ValuesStay
  <2> QED BY <2>4, <2>5
<1>3. CASE j[n].kind = "moved"
  <2> DEFINE w == Entry(StateField[j[n].entity], j[n].body)
  <2>1. j[n].id \in DOMAIN d.records /\ r = [entity |-> r.entity, values |-> r.values]
    BY <1>3, RecordIs DEF Told, Succeeds
  <2>2. /\ DOMAIN p.records = DOMAIN d.records
        /\ p.records[j[n].id] = [entity |-> r.entity, values |-> Over(w, r.values)]
        /\ \A y \in DOMAIN d.records \ {j[n].id} : p.records[y] = d.records[y]
    BY <1>0, <1>3, <2>1, MovedApplied
  <2>3. Wrote(j[n]) = w
    BY <1>3 DEF Wrote
  <2> HIDE DEF w
  <2>4. CASE j[n].id = x
    <3>1. ValuesTold(j, T \cup {n}, x, Over(Wrote(j[n]), d.records[x].values))
      BY <1>0, <1>3, <1>5, <1>6, <2>4, ValuesWritten
    <3>2. p.records[x].values = Over(Wrote(j[n]), d.records[x].values)
      BY <2>2, <2>3, <2>4
    <3> QED BY <2>2, <2>4, <3>1, <3>2
  <2>5. CASE j[n].id # x
    BY <1>5, <2>2, <2>5, ValuesStay
  <2> QED BY <2>4, <2>5
<1>4. CASE j[n].kind \in {"linked", "unlinked", "comment", "task"}
  <2>1. p.records = d.records
    BY <1>0, <1>4, LinkedApplied, UnlinkedApplied, CommentApplied, TaskApplied
  <2>2. DOMAIN Wrote(j[n]) = {}
    BY <1>4 DEF Wrote
  <2> QED BY <1>5, <2>1, <2>2, ValuesStay
<1> QED BY <1>1, <1>2, <1>3, <1>4 DEF Succeeds, Kinds

-----------------------------------------------------------------------------
(* The fold of a journal is a function of its length: there is one.        *)
FoldStep(log, B, g, n) ==
  IF n = 0 THEN Nothing
  ELSE IF n \in B THEN g[n - 1]
  ELSE Apply(g[n - 1], n, log[n])

IsFold(log, B, k, g) == g = [n \in 0..k |-> FoldStep(log, B, g, n)]

LEMMA FoldExists ==
  ASSUME NEW log, NEW B, NEW k \in Nat
  PROVE  \E g : IsFold(log, B, k, g)
<1> DEFINE Bad == {i \in Nat : ~\E g : IsFold(log, B, i, g)}
<1> SUFFICES ASSUME Bad # {} PROVE FALSE
  OBVIOUS
<1>1. PICK i \in Bad : \A l \in Bad : i <= l
  <2>1. Bad \in SUBSET Nat
    OBVIOUS
  <2> HIDE DEF Bad
  <2> QED BY <2>1, LeastNumber
<1>2. i # 0
  <2>1. IsFold(log, B, 0, [n \in 0..0 |-> Nothing])
    BY DEF IsFold, FoldStep
  <2> QED BY <1>1, <2>1
<1>3. PICK g : IsFold(log, B, i - 1, g)
  <2>1. i - 1 \in Nat /\ i - 1 \notin Bad
    BY <1>1, <1>2
  <2> QED BY <2>1
<1> DEFINE h == [n \in 0..i |-> IF n < i THEN g[n] ELSE FoldStep(log, B, g, n)]
<1>4. ASSUME NEW n \in 0..i
      PROVE  h[n] = FoldStep(log, B, h, n)
  <2>1. n # 0 => n - 1 \in 0..i /\ n - 1 < i
    BY <1>1
  <2>2. FoldStep(log, B, h, n) = FoldStep(log, B, g, n)
    BY <2>1 DEF FoldStep
  <2>3. n < i => g[n] = FoldStep(log, B, g, n)
    <3>1. n < i => n \in 0..(i - 1)
      BY <1>1
    <3>2. g = [m \in 0..(i - 1) |-> FoldStep(log, B, g, m)]
      BY <1>3 DEF IsFold
    <3> QED BY <3>1, <3>2
  <2> QED BY <2>2, <2>3
<1>5. h = [n \in 0..i |-> FoldStep(log, B, h, n)]
  <2>1. h = [n \in 0..i |-> h[n]]
    OBVIOUS
  <2> HIDE DEF h
  <2> QED BY <1>4, <2>1
<1> QED BY <1>1, <1>5 DEF IsFold

(* A replay of any of the events is told them.                             *)
LEMMA ReplayIsFold ==
  ASSUME NEW log, NEW B, Len(log) \in Nat
  PROVE  \E g : /\ Replay(log, B) = g[Len(log)]
                /\ \A n \in 0..Len(log) : g[n] = FoldStep(log, B, g, n)
<1> DEFINE rec(g) == [n \in 0..Len(log) |->
                        IF n = 0 THEN Nothing
                        ELSE IF n \in B THEN g[n - 1]
                        ELSE Apply(g[n - 1], n, log[n])]
           fold == CHOOSE g : g = rec(g)
<1>1. \E g : g = rec(g)
  <2>1. PICK g : IsFold(log, B, Len(log), g)
    BY FoldExists
  <2>2. g = rec(g)
    BY <2>1 DEF IsFold, FoldStep
  <2> HIDE DEF rec
  <2> QED BY <2>2
<1>2. fold = rec(fold)
  <2> HIDE DEF rec
  <2> QED BY <1>1
<1>3. Replay(log, B) = fold[Len(log)]
  BY DEF Replay
<1> HIDE DEF fold
<1>4. \A n \in 0..Len(log) : fold[n] = FoldStep(log, B, fold, n)
  BY <1>2 DEF FoldStep
<1> QED BY <1>3, <1>4

-----------------------------------------------------------------------------
(* The values of every record, and since when, are as told.                *)
AllValuesTold(j, T, d) == \A n \in Born(j, T) : AsTold(j, T, d, j[n].id)

LEMMA NextFollows ==
  ASSUME NEW j, NEW T \in SUBSET Nat, NEW d, Told(j, T, d), NEW n \in Nat,
         \A m \in T : m < n, Sound(j, T \cup {n}), j[n].kind \in Kinds,
         j[n].kind = "created" => IsMap(j[n].body.values)
  PROVE  /\ Follows(j, T, d, n)
         /\ j[n].kind = "created" =>
              \A m \in T : j[m].id = j[n].id => j[m].kind \notin {"created", "updated", "moved"}
<1>1. ASSUME j[n].kind = "created", NEW m \in T, j[m].id = j[n].id,
             j[m].kind \in {"created", "updated", "moved"}
      PROVE  FALSE
  <2>1. m < n
    OBVIOUS
  <2>2. CASE j[m].kind = "created"
    BY <1>1, <2>1, <2>2 DEF Sound, Born
  <2>3. CASE j[m].kind \in {"updated", "moved"}
    <3>1. PICK b \in Born(j, T \cup {n}) : b < m /\ j[b].id = j[m].id
      BY <2>3 DEF Sound
    <3>2. b = n
      BY <1>1, <3>1 DEF Sound, Born
    <3> QED BY <2>1, <3>1, <3>2
  <2> QED BY <1>1, <2>2, <2>3
<1>2. ASSUME j[n].kind \in {"updated", "moved"}
      PROVE  j[n].id \in DOMAIN d.records
  <2>1. PICK b \in Born(j, T \cup {n}) : b < n /\ j[b].id = j[n].id
    BY <1>2 DEF Sound
  <2>2. b \in Born(j, T)
    BY <2>1 DEF Born
  <2> QED BY <2>1, <2>2 DEF Told, RecordsTold
<1> QED BY <1>1, <1>2 DEF Follows, Enters

LEMMA ValuesOfBirth ==
  ASSUME NEW j, NEW T, NEW d, IsProjection(d), NEW n \in Nat, j[n].kind = "created",
         NEW e, e.kind = "created", e.id = j[n].id, e.body.values = j[n].body.values,
         \A m \in T : j[m].id = j[n].id => j[m].kind \notin {"created", "updated", "moved"}
  PROVE  AsTold(j, T \cup {n}, Apply(d, n, e), j[n].id)
<1>1. Apply(d, n, e).records =
        Over(Entry(e.id, [entity |-> e.entity, values |-> e.body.values]), d.records)
  BY CreatedApplied
<1>2. Apply(d, n, e).records[j[n].id].values = Wrote(j[n])
  BY <1>1 DEF Over, Entry, Wrote
<1>3. \A m \in T : j[m].id = j[n].id => DOMAIN Wrote(j[m]) = {}
  BY DEF Wrote
<1>4. ValuesTold(j, T \cup {n}, j[n].id, Apply(d, n, e).records[j[n].id].values)
  BY <1>2, <1>3, ValuesBorn
<1>5. SinceLast(j, T \cup {n}, Apply(d, n, e), j[n].id)
  <2>1. Apply(d, n, e).since = Over(Entry(e.id, n), d.since)
    BY CreatedApplied
  <2>2. Apply(d, n, e).since[j[n].id] = n
    BY <2>1 DEF Over, Entry
  <2> QED BY <2>2 DEF SinceLast, Enters
<1> QED BY <1>4, <1>5 DEF AsTold

LEMMA AllValuesKept ==
  ASSUME NEW j, NEW T \in SUBSET Nat, NEW d, Told(j, T, d), NEW n \in Nat,
         \A m \in T : m < n, Sound(j, T \cup {n}), j[n].kind \in Kinds,
         j[n].kind = "created" => IsMap(j[n].body.values), AllValuesTold(j, T, d)
  PROVE  AllValuesTold(j, T \cup {n}, Apply(d, n, j[n]))
<1> SUFFICES ASSUME NEW b \in Born(j, T \cup {n})
             PROVE  AsTold(j, T \cup {n}, Apply(d, n, j[n]), j[b].id)
  BY DEF AllValuesTold
<1>1. /\ Follows(j, T, d, n)
      /\ j[n].kind = "created" =>
           \A m \in T : j[m].id = j[n].id => j[m].kind \notin {"created", "updated", "moved"}
  BY NextFollows
<1>2. CASE b = n
  <2>1. j[n].kind = "created" /\ IsProjection(d)
    BY <1>2 DEF Born, Told
  <2> QED BY <1>1, <1>2, <2>1, ValuesOfBirth
<1>3. CASE b # n
  <2>1. b \in Born(j, T)
    BY <1>3 DEF Born
  <2>2. j[b].id \in DOMAIN d.records /\ AsTold(j, T, d, j[b].id)
    BY <2>1 DEF AllValuesTold, Told, RecordsTold
  <2>3. j[n].kind = "created" => j[n].id # j[b].id
    BY <1>1, <2>1 DEF Born
  <2> QED BY <1>1, <2>2, <2>3, FollowsSucceeds, ValuesApplied
<1> QED BY <1>2, <1>3

LEMMA NothingTold ==
  ASSUME NEW j
  PROVE  Told(j, {}, Nothing) /\ AllValuesTold(j, {}, Nothing)
<1>1. Born(j, {}) = {}
  BY DEF Born
<1>2. IsProjection(Nothing) /\ IsMap(Nothing.records) /\ DOMAIN Nothing.records = {}
      /\ IsMap(Nothing.since) /\ DOMAIN Nothing.since = {}
      /\ Nothing.links = {} /\ Nothing.comments = {} /\ Nothing.tasks = {}
  BY DEF Nothing, IsProjection, IsMap
<1> HIDE DEF Nothing
<1> QED BY <1>1, <1>2 DEF Told, RecordsTold, SinceTold, LinksTold, CommentsTold, TasksTold,
           AllValuesTold

LEMMA ReplayTold ==
  ASSUME NEW j, Len(j) \in Nat, NEW B,
         Sound(j, (1..Len(j)) \ B),
         \A n \in 1..Len(j) :
           j[n].kind \in Kinds /\ (j[n].kind = "created" => IsMap(j[n].body.values))
  PROVE  /\ Told(j, (1..Len(j)) \ B, Replay(j, B))
         /\ AllValuesTold(j, (1..Len(j)) \ B, Replay(j, B))
<1>1. PICK g : /\ Replay(j, B) = g[Len(j)]
               /\ \A n \in 0..Len(j) : g[n] = FoldStep(j, B, g, n)
  BY ReplayIsFold
<1> DEFINE T(k) == (1..k) \ B
           Good(k) == Told(j, T(k), g[k]) /\ AllValuesTold(j, T(k), g[k])
           Bad == {k \in 0..Len(j) : ~Good(k)}
<1> SUFFICES ASSUME Bad # {} PROVE FALSE
  <2>1. Len(j) \in 0..Len(j)
    OBVIOUS
  <2> QED BY <1>1, <2>1
<1>2. PICK k \in Bad : \A l \in Bad : k <= l
  <2>1. Bad \in SUBSET Nat
    OBVIOUS
  <2> HIDE DEF Bad
  <2> QED BY <2>1, LeastNumber
<1>3. k # 0
  <2>1. T(0) = {}
    OBVIOUS
  <2>2. g[0] = Nothing
    BY <1>1 DEF FoldStep
  <2>3. Good(0)
    BY <2>1, <2>2, NothingTold
  <2> QED BY <1>2, <2>3
<1>4. k \in 1..Len(j) /\ k - 1 \in 0..Len(j) /\ Good(k - 1)
  <2>1. k \in 0..Len(j)
    BY <1>2
  <2>2. k \in 1..Len(j) /\ k - 1 \in 0..Len(j) /\ ~(k <= k - 1)
    BY <1>3, <2>1
  <2>3. k - 1 \notin Bad
    <3> HIDE DEF Bad
    <3> QED BY <1>2, <2>2
  <2> QED BY <2>2, <2>3
<1>5. CASE k \in B
  <2>1. T(k) = T(k - 1)
    BY <1>4, <1>5
  <2>2. g[k] = g[k - 1]
    BY <1>1, <1>4, <1>5 DEF FoldStep
  <2> QED BY <1>2, <1>4, <2>1, <2>2
<1>6. CASE k \notin B
  <2> DEFINE U == T(k - 1)
  <2>1. T(k) = U \cup {k} /\ U \in SUBSET Nat /\ \A m \in U : m < k
    BY <1>4, <1>6
  <2>2. g[k] = Apply(g[k - 1], k, j[k])
    BY <1>1, <1>4, <1>6 DEF FoldStep
  <2>3. Sound(j, U \cup {k})
    <3>1. T(k) \subseteq T(Len(j))
      BY <1>4
    <3>2. \A n \in T(k), b \in T(Len(j)) : b < n => b \in T(k)
      BY <1>4
    <3>3. Sound(j, T(Len(j)))
      OBVIOUS
    <3> HIDE DEF T
    <3> QED BY <2>1, <3>1, <3>2, <3>3 DEF Sound, Born
  <2>4. Told(j, U, g[k - 1]) /\ AllValuesTold(j, U, g[k - 1])
    BY <1>4
  <2>5. k \in Nat /\ j[k].kind \in Kinds /\ (j[k].kind = "created" => IsMap(j[k].body.values))
    BY <1>4
  <2> HIDE DEF U, T
  <2>6. AllValuesTold(j, U \cup {k}, Apply(g[k - 1], k, j[k]))
    BY <2>1, <2>3, <2>4, <2>5, AllValuesKept
  <2>7. Told(j, U \cup {k}, Apply(g[k - 1], k, j[k]))
    BY <2>1, <2>3, <2>4, <2>5, NextFollows, ApplyKeeps
  <2> QED BY <1>2, <2>1, <2>2, <2>6, <2>7
<1> QED BY <1>5, <1>6

-----------------------------------------------------------------------------
(* What is told does not depend on the events that are not.                *)
LEMMA BornOn ==
  ASSUME NEW j, NEW i, NEW T, \A n \in T : i[n] = j[n]
  PROVE  Born(i, T) = Born(j, T)
BY DEF Born

LEMMA ToldOn ==
  ASSUME NEW j, NEW i, NEW T, NEW d, Told(j, T, d), \A n \in T : i[n] = j[n]
  PROVE  Told(i, T, d)
<1>1. Born(i, T) = Born(j, T) /\ \A n \in Born(j, T) : n \in T /\ i[n] = j[n]
  BY BornOn DEF Born
<1>2. RecordsTold(i, T, d)
  <2>1. {j[n].id : n \in Born(j, T)} = {i[n].id : n \in Born(j, T)}
    BY <1>1
  <2> QED BY <1>1, <2>1 DEF Told, RecordsTold
<1>3. SinceTold(i, T, d)
  BY DEF Told, SinceTold, Enters
<1>4. LinksTold(i, T, d)
  BY DEF Told, LinksTold
<1>5. CommentsTold(i, T, d)
  BY DEF Told, CommentsTold
<1>6. TasksTold(i, T, d)
  BY DEF Told, TasksTold
<1> QED BY <1>2, <1>3, <1>4, <1>5, <1>6 DEF Told

LEMMA ValuesOn ==
  ASSUME NEW j, NEW i, NEW T, NEW d, NEW x, AsTold(j, T, d, x),
         \A n \in T : i[n] = j[n]
  PROVE  AsTold(i, T, d, x)
BY DEF AsTold, ValuesTold, SinceLast, Enters

(* Two projections told the same differ in values, in since when these are *)
(* there, and in the ids of comments only.                                 *)
LEMMA ToldSame ==
  ASSUME NEW j, NEW T \in SUBSET Nat, NEW d, Told(j, T, d), NEW p, Told(j, T, p)
  PROVE  /\ DOMAIN d.records = DOMAIN p.records /\ DOMAIN d.since = DOMAIN p.since
         /\ \A x \in DOMAIN d.records : d.records[x].entity = p.records[x].entity
         /\ \A x \in DOMAIN d.since :
              SinceLast(j, T, d, x) /\ SinceLast(j, T, p, x) => d.since[x] = p.since[x]
         /\ d.links = p.links /\ d.tasks = p.tasks
<1>1. DOMAIN d.records = DOMAIN p.records
  BY DEF Told, RecordsTold
<1>2. ASSUME NEW x \in DOMAIN d.records
      PROVE  d.records[x].entity = p.records[x].entity
  <2>1. PICK b \in Born(j, T) : j[b].id = x
    BY DEF Told, RecordsTold
  <2>2. LET r == d.records[j[b].id] IN r = [entity |-> j[b].entity, values |-> r.values]
    BY DEF Told, RecordsTold
  <2>3. LET r == p.records[j[b].id] IN r = [entity |-> j[b].entity, values |-> r.values]
    BY DEF Told, RecordsTold
  <2> QED BY <2>1, <2>2, <2>3
<1>3. DOMAIN d.since = DOMAIN p.since
  BY <1>1 DEF Told, SinceTold
<1>6. ASSUME NEW x \in DOMAIN d.since, SinceLast(j, T, d, x), SinceLast(j, T, p, x)
      PROVE  d.since[x] = p.since[x]
  <2>1. d.since[x] \in T /\ Enters(j[d.since[x]], x)
    BY DEF Told, SinceTold
  <2>2. p.since[x] \in T /\ Enters(j[p.since[x]], x)
    BY <1>3 DEF Told, SinceTold
  <2>3. p.since[x] <= d.since[x] /\ d.since[x] <= p.since[x]
    BY <1>6, <2>1, <2>2 DEF SinceLast
  <2>4. p.since[x] \in Nat /\ d.since[x] \in Nat
    BY <2>1, <2>2
  <2> QED BY <2>3, <2>4
<1>4. d.links = p.links
  <2>1. \A l : l \in d.links <=> l \in p.links
    BY DEF Told, LinksTold
  <2> QED BY <2>1
<1>5. d.tasks = p.tasks
  BY DEF Told, TasksTold
<1> QED BY <1>1, <1>2, <1>3, <1>4, <1>5, <1>6

(* The comments of a thread, by their events alone.                        *)
Thread(j, T, id, staff) ==
  {n \in T : j[n].kind = "comment" /\ j[n].id = id /\ (j[n].body => staff)}

LEMMA ThreadTold ==
  ASSUME NEW j, NEW T \in SUBSET Nat, NEW d, Told(j, T, d), NEW id, NEW staff \in BOOLEAN
  PROVE  CommentsOf(d, id, staff) =
           {[event |-> n, after |-> {m \in Thread(j, T, id, staff) : m < n}] :
              n \in Thread(j, T, id, staff)}
<1> DEFINE shown == {c \in d.comments : c.host = id /\ (c.internal => staff)}
           E == Thread(j, T, id, staff)
           after(c) == {b.event : b \in {b \in shown : b.id < c.id}}
<1>1. \A c \in d.comments :
        /\ c.event \in T /\ j[c.event].kind = "comment"
        /\ c.id \in {2 * c.event - 1, 2 * c.event}
        /\ c.host = j[c.event].id /\ c.internal = j[c.event].body
  BY DEF Told, CommentsTold, Posted
<1>2. \A n \in T : j[n].kind = "comment" => \E c \in d.comments : c.event = n
  BY DEF Told, CommentsTold
<1>3. \A b, c \in d.comments : b.event = c.event => b = c
  BY DEF Told, CommentsTold
<1>4. \A c \in shown : c.event \in E
  BY <1>1 DEF Thread
<1>5. \A n \in E : \E c \in shown : c.event = n
  BY <1>1, <1>2 DEF Thread
<1>6. \A b, c \in shown : b.id < c.id <=> b.event < c.event
  <2> TAKE b, c \in shown
  <2>1. b.event \in Nat /\ c.event \in Nat /\ (b.event = c.event => b = c)
    BY <1>1, <1>3
  <2>2. b.id \in {2 * b.event - 1, 2 * b.event} /\ c.id \in {2 * c.event - 1, 2 * c.event}
    BY <1>1
  <2>3. b.event = c.event => b.id = c.id
    BY <2>1
  <2> QED BY <2>1, <2>2, <2>3
<1>7. ASSUME NEW c \in shown
      PROVE  after(c) = {m \in E : m < c.event}
  <2>1. ASSUME NEW b \in shown, b.id < c.id PROVE b.event \in E /\ b.event < c.event
    BY <1>4, <1>6, <2>1
  <2>2. ASSUME NEW m \in E, m < c.event PROVE \E b \in shown : b.id < c.id /\ b.event = m
    BY <1>5, <1>6, <2>2
  <2> HIDE DEF shown, E
  <2> QED BY <2>1, <2>2
<1>8. CommentsOf(d, id, staff) = {[event |-> c.event, after |-> after(c)] : c \in shown}
  BY DEF CommentsOf
<1> HIDE DEF shown, after, E
<1>9. {[event |-> c.event, after |-> after(c)] : c \in shown} =
        {[event |-> n, after |-> {m \in E : m < n}] : n \in E}
  <2>1. ASSUME NEW c \in shown
        PROVE  [event |-> c.event, after |-> after(c)] \in
                 {[event |-> n, after |-> {m \in E : m < n}] : n \in E}
    BY <1>4, <1>7
  <2>2. ASSUME NEW n \in E
        PROVE  [event |-> n, after |-> {m \in E : m < n}] \in
                 {[event |-> c.event, after |-> after(c)] : c \in shown}
    <3>1. PICK c \in shown : c.event = n
      BY <1>5
    <3> QED BY <1>7, <3>1
  <2> QED BY <2>1, <2>2
<1> QED BY <1>8, <1>9 DEF E

-----------------------------------------------------------------------------
(* The inductive invariant.  Events have the form their handlers gave them.*)
TaskFits(e) ==
  LET f == e.body
  IN  /\ f = <<f[1], f[2], f[3]>> /\ f[1] \in DOMAIN Rules
      /\ Rules[f[1]].on \in {"schedule", "stuck"}
      /\ f[2] \in 1..Rules[f[1]].steps /\ f[3] \in {NoField} \cup Minted
      /\ e.entity = Rules[f[1]].entity /\ e.id = f[3]
      /\ e.key = <<Rules[f[1]].on, f[1], f[2], f[3], e.key[5]>>
      /\ e.key[5] \in 1..(MaxEvents + MaxDay)
      /\ Rules[f[1]].on = "schedule" => e.key[5] = e.day

EventFits(e) ==
  /\ IsEvent(e) /\ e.kind \in Kinds /\ e.day \in 1..MaxDay /\ e.lost \in BOOLEAN
  /\ e.kind # "task" => e.entity \in Entity /\ e.key \in Keys \cup {NoKey}
  /\ e.kind \notin {"created", "updated", "moved", "task"} => e.key = NoKey
  /\ e.kind = "created" =>
       /\ e.id \in Minted
       /\ e.body = [values |-> e.body.values, given |-> e.body.given,
                    imported |-> e.body.imported]
       /\ IsMap(e.body.values)
  /\ e.kind = "updated" => IsMap(e.body) /\ StateField[e.entity] \notin DOMAIN e.body
  /\ e.kind \in {"linked", "unlinked"} =>
       \E r \in Named(e.entity, e.body.name) : e.body = Asked(r, e.id, e.body.name, e.body.other)
  /\ e.kind = "task" => TaskFits(e)

(* Every record is born once, by an event the projection was told of if    *)
(* anything was written to the record since.                               *)
BornOnce(j) ==
  \A m, n \in DOMAIN j :
    j[m].kind = "created" /\ j[n].kind = "created" /\ j[m].id = j[n].id => m = n

Known(j, T) ==
  \A n \in DOMAIN j : j[n].kind \in {"updated", "moved"} =>
    \E b \in Born(j, T) : b < n /\ j[b].id = j[n].id /\ j[b].entity = j[n].entity

KeysOnce(j) == \A m, n \in DOMAIN j : j[m].key # NoKey /\ j[m].key = j[n].key => m = n

JournalInv ==
  /\ IsSequence(journal) /\ Len(journal) <= MaxEvents
  /\ \A n \in DOMAIN journal : EventFits(journal[n])
  /\ BornOnce(journal) /\ KeysOnce(journal)
  /\ Count("created") \in 0..Len(Ids)
  /\ \A n \in DOMAIN journal : journal[n].kind = "created" =>
       \E k \in 1..Count("created") : journal[n].id = Ids[k]

(* What the projection was told of.                                        *)
Heeded == DOMAIN journal \ behind

(* A record is as told but where a repeated call wrote it.                 *)
ValuesInv ==
  \A n \in Born(journal, Heeded) :
    journal[n].id \in skew \/ AsTold(journal, Heeded, db, journal[n].id)

CoreInv ==
  /\ JournalInv
  /\ behind \subseteq Lost /\ day \in 1..MaxDay /\ ticked \in BOOLEAN
  /\ skew \subseteq rewritten
  /\ Known(journal, Heeded)
  /\ Told(journal, Heeded, db)
  /\ ValuesInv

(* A record that was moved is where the last move told brought it, and a   *)
(* later move that was not told leads elsewhere; not so where a repeated   *)
(* call wrote.                                                             *)
StateAt(x) ==
  LET v == db.records[x].values
      field == StateField[db.records[x].entity]
      s == journal[db.since[x]]
  IN  /\ s.kind = "moved" => field \in DOMAIN v /\ v[field] = s.body
      /\ \A q \in behind :
           journal[q].kind = "moved" /\ journal[q].id = x /\ q > db.since[x] =>
             journal[q].body # ValueAt(v, field)

StateInv == \A x \in DOMAIN db.records \ rewritten : StateAt(x)

(* The ends of a link were there when it was asked for or removed.         *)
Joined(l, records) ==
  \E i \in DOMAIN LinkDecls :
    /\ LinkDecls[i].forward = l.link
    /\ l.from \in Of(LinkDecls[i].from, records) /\ l.to \in Of(LinkDecls[i].to, records)

LinkInv ==
  \A n \in DOMAIN journal :
    journal[n].kind \in {"linked", "unlinked"} => Joined(journal[n].body.fact, db.records)

(* The key of a stuck record's task names the event that brought it into   *)
(* the state, and it was moved elsewhere only before the task was made.    *)
PeriodFits(n) ==
  LET f == journal[n].body
      p == journal[n].key[5]
      state == Text(Rules[f[1]].state)
  IN  /\ p \in Heeded /\ p < n /\ Enters(journal[p], f[3])
      /\ journal[p].kind = "moved" => journal[p].body = state
      /\ \A q \in (p + 1)..(n - 1) :
           Enters(journal[q], f[3]) => journal[q].kind = "moved" /\ journal[q].body # state

TaskInv ==
  \A n \in DOMAIN journal :
    /\ journal[n].kind = "task" /\ Rules[journal[n].body[1]].on = "stuck"
    /\ journal[n].body[3] \notin rewritten
    => PeriodFits(n)

(* After a heartbeat without errors whatever is due has its task.          *)
TickedInv ==
  ticked => \A f \in Firings : \E n \in db.tasks : journal[n].key = Key(f[1], f[2], f[3])

-----------------------------------------------------------------------------
LEMMA SoundOf ==
  ASSUME NEW j, NEW T, T \subseteq DOMAIN j, BornOnce(j), Known(j, T)
  PROVE  Sound(j, T)
BY DEF Sound, BornOnce, Known, Born

LEMMA CoreFacts ==
  ASSUME CoreInv
  PROVE  /\ Len(journal) \in Nat /\ DOMAIN journal = 1..Len(journal)
         /\ Heeded \in SUBSET Nat /\ Heeded \subseteq DOMAIN journal
         /\ Lost \subseteq DOMAIN journal /\ behind \subseteq Lost
         /\ Sound(journal, Heeded)
<1>1. Len(journal) \in Nat /\ DOMAIN journal = 1..Len(journal)
  BY SequenceIs DEF CoreInv, JournalInv
<1>2. Heeded \in SUBSET Nat /\ Heeded \subseteq DOMAIN journal
  BY <1>1 DEF Heeded
<1>3. Sound(journal, Heeded)
  BY <1>2, SoundOf DEF CoreInv, JournalInv
<1> QED BY <1>1, <1>2, <1>3 DEF CoreInv, Lost

(* The ids minted so far are those of the first births.                    *)
LEMMA CountIs ==
  ASSUME Len(journal) \in Nat, DOMAIN journal = 1..Len(journal),
         Len(journal') \in Nat, DOMAIN journal' = 1..Len(journal'),
         Len(journal) <= Len(journal'),
         \A n \in 1..Len(journal) : journal'[n] = journal[n], NEW kind
  PROVE  /\ Count(kind) \in Nat
         /\ (\A n \in (Len(journal) + 1)..Len(journal') : journal'[n].kind # kind)
              => Count(kind)' = Count(kind)
         /\ Len(journal') = Len(journal) + 1 /\ journal'[Len(journal')].kind = kind
              => Count(kind)' = Count(kind) + 1
<1> DEFINE S == {n \in DOMAIN journal : journal[n].kind = kind}
           R == {n \in DOMAIN journal' : journal'[n].kind = kind}
<1>1. IsFiniteSet(S) /\ Cardinality(S) \in Nat
  <2>1. S \subseteq 1..Len(journal)
    OBVIOUS
  <2>2. IsFiniteSet(1..Len(journal))
    BY FS_Interval
  <2> HIDE DEF S
  <2> QED BY <2>1, <2>2, FS_Subset, FS_CardinalityType
<1>2. Count(kind) = Cardinality(S) /\ Count(kind)' = Cardinality(R)
  BY DEF Count
<1>3. ASSUME \A n \in (Len(journal) + 1)..Len(journal') : journal'[n].kind # kind
      PROVE  R = S
  <2>1. ASSUME NEW n \in R PROVE n \in S
    <3>1. n \in 1..Len(journal') /\ n \notin (Len(journal) + 1)..Len(journal')
      BY <1>3
    <3>2. n \in 1..Len(journal)
      BY <3>1
    <3> QED BY <3>2
  <2>2. ASSUME NEW n \in S PROVE n \in R
    OBVIOUS
  <2> QED BY <2>1, <2>2
<1>4. ASSUME Len(journal') = Len(journal) + 1, journal'[Len(journal')].kind = kind
      PROVE  R = S \cup {Len(journal')} /\ Len(journal') \notin S
  <2>1. ASSUME NEW n \in R PROVE n \in S \cup {Len(journal')}
    BY <1>4
  <2>2. S \subseteq R /\ Len(journal') \in R
    BY <1>4
  <2> QED BY <1>4, <2>1, <2>2
<1> HIDE DEF S, R
<1>5. ASSUME Len(journal') = Len(journal) + 1, journal'[Len(journal')].kind = kind
      PROVE  Cardinality(R) = Cardinality(S) + 1
  BY <1>1, <1>4, <1>5, FS_AddElement
<1> QED BY <1>1, <1>2, <1>3, <1>5

LEMMA JournalGrows ==
  ASSUME JournalInv, IsSequence(journal'),
         Len(journal') \in Len(journal)..MaxEvents,
         \A n \in 1..Len(journal) : journal'[n] = journal[n],
         \A n \in (Len(journal) + 1)..Len(journal') :
           /\ EventFits(journal'[n])
           /\ journal'[n].key # NoKey => \A m \in 1..Len(journal) : journal[m].key # journal'[n].key,
         \A m, n \in (Len(journal) + 1)..Len(journal') :
           journal'[m].key # NoKey /\ journal'[m].key = journal'[n].key => m = n,
         \/ \A n \in (Len(journal) + 1)..Len(journal') : journal'[n].kind # "created"
         \/ /\ Len(journal') = Len(journal) + 1
            /\ journal'[Len(journal')].kind = "created"
            /\ journal'[Len(journal')].id = FreshId /\ Count("created") < Len(Ids)
  PROVE  JournalInv'
<1> DEFINE L == Len(journal)
           M == Len(journal')
<1>1. /\ L \in Nat /\ DOMAIN journal = 1..L /\ M \in Nat /\ DOMAIN journal' = 1..M
      /\ L <= M /\ M <= MaxEvents
  BY SequenceIs, BoundAssumption DEF JournalInv
<1>2. \A n \in 1..M : n \in 1..L \/ n \in (L + 1)..M
  <2> HIDE DEF L, M
  <2> QED BY <1>1
<1>3. \A n \in 1..M : EventFits(journal'[n])
  BY <1>1, <1>2 DEF JournalInv
<1>4. KeysOnce(journal')
  <2> SUFFICES ASSUME NEW m \in 1..M, NEW n \in 1..M, journal'[m].key # NoKey,
                      journal'[m].key = journal'[n].key
               PROVE  m = n
    BY <1>1 DEF KeysOnce
  <2>1. CASE m \in 1..L /\ n \in 1..L
    <3>1. journal[m].key # NoKey /\ journal[m].key = journal[n].key
      BY <2>1
    <3> QED BY <1>1, <2>1, <3>1 DEF JournalInv, KeysOnce
  <2>2. CASE m \in (L + 1)..M /\ n \in (L + 1)..M
    BY <2>2
  <2>3. CASE m \in (L + 1)..M /\ n \in 1..L
    BY <2>3
  <2>4. CASE n \in (L + 1)..M /\ m \in 1..L
    BY <2>4
  <2> QED BY <1>2, <2>1, <2>2, <2>3, <2>4
<1>5. Len(Ids) \in Nat /\ Count("created") \in 0..Len(Ids)
  BY SequenceIs, IdAssumption DEF JournalInv
<1>6. \A n \in 1..L : journal[n].kind = "created" => \E k \in 1..Count("created") : journal[n].id = Ids[k]
  BY <1>1 DEF JournalInv
<1>7. CASE \A n \in (L + 1)..M : journal'[n].kind # "created"
  <2>1. Count("created")' = Count("created")
    BY <1>1, <1>7, CountIs
  <2>2. BornOnce(journal')
    <3> SUFFICES ASSUME NEW m \in 1..M, NEW n \in 1..M, journal'[m].kind = "created",
                        journal'[n].kind = "created", journal'[m].id = journal'[n].id
                 PROVE  m = n
      BY <1>1 DEF BornOnce
    <3>1. m \in 1..L /\ n \in 1..L
      BY <1>2, <1>7
    <3>2. journal[m].kind = "created" /\ journal[n].kind = "created" /\ journal[m].id = journal[n].id
      BY <3>1
    <3> QED BY <1>1, <3>1, <3>2 DEF JournalInv, BornOnce
  <2>3. \A n \in 1..M : journal'[n].kind = "created" =>
          \E k \in 1..Count("created")' : journal'[n].id = Ids[k]
    BY <1>2, <1>6, <1>7, <2>1
  <2> QED BY <1>1, <1>3, <1>4, <1>5, <2>1, <2>2, <2>3 DEF JournalInv
<1>8. CASE /\ M = L + 1 /\ journal'[M].kind = "created"
           /\ journal'[M].id = FreshId /\ Count("created") < Len(Ids)
  <2>1. Count("created")' = Count("created") + 1
    BY <1>1, <1>8, CountIs
  <2>2. \A n \in 1..L : journal[n].kind = "created" => journal[n].id # journal'[M].id
    <3> SUFFICES ASSUME NEW n \in 1..L, journal[n].kind = "created", journal[n].id = journal'[M].id
                 PROVE  FALSE
      OBVIOUS
    <3>1. PICK k \in 1..Count("created") : journal[n].id = Ids[k]
      BY <1>6
    <3>2. Ids[k] = Ids[Count("created") + 1]
      BY <1>8, <3>1 DEF FreshId
    <3>3. k \in DOMAIN Ids /\ Count("created") + 1 \in DOMAIN Ids
      BY <1>5, <1>8, IdAssumption, SequenceIs
    <3>4. k = Count("created") + 1
      BY <3>2, <3>3, IdAssumption
    <3> QED BY <1>5, <3>4
  <2>3. \A n \in 1..M : n \in 1..L \/ n = M
    BY <1>1, <1>8
  <2>4. BornOnce(journal')
    <3> SUFFICES ASSUME NEW m \in 1..M, NEW n \in 1..M, journal'[m].kind = "created",
                        journal'[n].kind = "created", journal'[m].id = journal'[n].id
                 PROVE  m = n
      BY <1>1 DEF BornOnce
    <3>1. CASE m \in 1..L /\ n \in 1..L
      <4>1. /\ journal[m].kind = "created" /\ journal[n].kind = "created"
            /\ journal[m].id = journal[n].id
        BY <3>1
      <4> QED BY <1>1, <3>1, <4>1 DEF JournalInv, BornOnce
    <3> QED BY <2>2, <2>3, <3>1
  <2>5. \A n \in 1..M : journal'[n].kind = "created" =>
          \E k \in 1..Count("created")' : journal'[n].id = Ids[k]
    <3>1. Count("created") + 1 \in 1..Count("created")' /\ journal'[M].id = Ids[Count("created") + 1]
      BY <1>5, <1>8, <2>1 DEF FreshId
    <3>2. 1..Count("created") \subseteq 1..Count("created")'
      BY <1>5, <2>1
    <3> SUFFICES ASSUME NEW n \in 1..M, journal'[n].kind = "created"
                 PROVE  \E k \in 1..Count("created")' : journal'[n].id = Ids[k]
      OBVIOUS
    <3>3. CASE n \in 1..L
      <4>1. journal'[n] = journal[n]
        BY <1>1, <3>3
      <4>2. PICK k \in 1..Count("created") : journal[n].id = Ids[k]
        BY <1>6, <3>3, <4>1
      <4> QED BY <3>2, <4>1, <4>2
    <3>4. CASE n = M
      <4>1. journal'[n].id = Ids[Count("created") + 1]
        BY ONLY <3>1, <3>4
      <4> QED BY ONLY <3>1, <4>1
    <3> QED BY ONLY n \in 1..M, <2>3, <3>3, <3>4
  <2>6. Count("created")' \in 0..Len(Ids)
    BY <1>5, <1>8, <2>1
  <2> QED BY <1>1, <1>3, <1>4, <2>4, <2>5, <2>6 DEF JournalInv
<1> QED BY <1>7, <1>8

-----------------------------------------------------------------------------
(* One append: heard and projected, or lost.                               *)
NewFits(e) ==
  /\ EventFits(e) /\ e.kind # "task" /\ ~e.lost
  /\ e.key # NoKey => ByIdemKey(journal, e.key) = {}
  /\ e.kind = "created" => e.id = FreshId /\ Count("created") < Len(Ids)
  /\ e.kind \in {"updated", "moved"} => e.id \in Of(e.entity, db.records)

HeardStep(e) ==
  /\ journal' = Append(journal, e)
  /\ db' = Project(db, Len(journal) + 1, e)
  /\ ticked' = FALSE /\ UNCHANGED <<behind, day, skew, rewritten>>

LostStep(e) ==
  /\ journal' = Append(journal, [e EXCEPT !.lost = TRUE])
  /\ behind' = behind \cup {Len(journal) + 1}
  /\ ticked' = FALSE /\ UNCHANGED <<db, day, skew, rewritten>>

LEMMA AppendsEither ==
  ASSUME NEW e, Appends(e)
  PROVE  HeardStep(e) \/ LostStep(e)
BY DEF Appends, HeardStep, LostStep

LEMMA LostFits ==
  ASSUME NEW e, IsEvent(e)
  PROVE  LET f == [e EXCEPT !.lost = TRUE]
         IN  /\ f.kind = e.kind /\ f.entity = e.entity /\ f.id = e.id /\ f.body = e.body
             /\ f.key = e.key /\ f.day = e.day /\ f.lost /\ f.lost = TRUE /\ IsEvent(f)
<1> DEFINE g == [kind |-> e.kind, entity |-> e.entity, id |-> e.id, body |-> e.body,
                 key |-> e.key, day |-> e.day, lost |-> e.lost]
           f == [g EXCEPT !.lost = TRUE]
<1>1. e = g
  BY DEF IsEvent
<1>2. ASSUME NEW x, x = f PROVE IsEvent(x)
  BY <1>2 DEF IsEvent
<1>3. /\ f.kind = e.kind /\ f.entity = e.entity /\ f.id = e.id /\ f.body = e.body
      /\ f.key = e.key /\ f.day = e.day /\ f.lost = TRUE
  OBVIOUS
<1> HIDE DEF g
<1> QED BY <1>1, <1>2, <1>3

LEMMA SameFits ==
  ASSUME NEW e, NEW f, EventFits(e), IsEvent(f), f.lost \in BOOLEAN,
         f.kind = e.kind, f.entity = e.entity, f.id = e.id, f.body = e.body, f.key = e.key,
         f.day = e.day
  PROVE  EventFits(f)
<1>1. TaskFits(e) => TaskFits(f)
  BY DEF TaskFits
<1> QED BY <1>1 DEF EventFits

LEMMA AppendShape ==
  ASSUME CoreInv, NEW e, NewFits(e), Len(journal) < MaxEvents, HeardStep(e) \/ LostStep(e)
  PROVE  LET n == Len(journal) + 1
         IN  /\ n \in Nat /\ Len(journal') = n /\ DOMAIN journal' = 1..n
             /\ \A m \in 1..Len(journal) : journal'[m] = journal[m]
             /\ \A m \in DOMAIN journal : m < n
             /\ journal'[n].kind = e.kind /\ journal'[n].entity = e.entity
             /\ journal'[n].id = e.id /\ journal'[n].body = e.body /\ journal'[n].key = e.key
             /\ journal'[n].day = e.day /\ EventFits(journal'[n])
             /\ HeardStep(e) => journal'[n] = e /\ Heeded' = Heeded \cup {n}
             /\ LostStep(e) => journal'[n].lost /\ Heeded' = Heeded
             /\ JournalInv'
<1> DEFINE n == Len(journal) + 1
           f == IF HeardStep(e) THEN e ELSE [e EXCEPT !.lost = TRUE]
<1>1. /\ Len(journal) \in Nat /\ DOMAIN journal = 1..Len(journal)
      /\ IsSequence(journal) /\ behind \subseteq DOMAIN journal
  BY CoreFacts DEF CoreInv, JournalInv
<1>2. journal' = Append(journal, f)
  BY DEF HeardStep, LostStep
<1>3. /\ EventFits(f) /\ f.kind = e.kind /\ f.entity = e.entity /\ f.id = e.id
      /\ f.body = e.body /\ f.key = e.key /\ f.day = e.day
  <2>1. EventFits(e) /\ IsEvent(e)
    BY DEF NewFits, EventFits
  <2>2. CASE HeardStep(e)
    BY <2>1, <2>2
  <2>3. CASE ~HeardStep(e)
    <3> DEFINE g == [e EXCEPT !.lost = TRUE]
    <3>1. /\ g.kind = e.kind /\ g.entity = e.entity /\ g.id = e.id /\ g.body = e.body
          /\ g.key = e.key /\ g.day = e.day /\ g.lost = TRUE /\ IsEvent(g)
      BY <2>1, LostFits
    <3> HIDE DEF g
    <3>2. EventFits(g)
      BY <2>1, <3>1, SameFits
    <3>3. f = g
      BY <2>3 DEF g
    <3> QED BY <3>1, <3>2, <3>3
  <2> QED BY <2>2, <2>3
<1>4. LostStep(e) => journal' = Append(journal, [e EXCEPT !.lost = TRUE]) /\ [e EXCEPT !.lost = TRUE].lost
  <2>1. IsEvent(e)
    BY DEF NewFits, EventFits
  <2> QED BY <2>1, LostFits DEF LostStep
<1> HIDE DEF f
<1>5. /\ IsSequence(journal') /\ Len(journal') = n /\ journal'[n] = f
      /\ \A m \in 1..Len(journal) : journal'[m] = journal[m]
  BY <1>1, <1>2, AppendIs
<1>6. DOMAIN journal' = 1..n
  BY <1>5, SequenceIs
<1>7. JournalInv'
  <2>1. n \in Len(journal)..MaxEvents /\ (Len(journal) + 1)..n = {n}
    BY <1>1, BoundAssumption
  <2>2. f.key # NoKey => \A m \in 1..Len(journal) : journal[m].key # f.key
    BY <1>1, <1>3 DEF NewFits, ByIdemKey
  <2>3. f.kind = "created" => f.id = FreshId /\ Count("created") < Len(Ids)
    BY <1>3 DEF NewFits
  <2> QED BY <1>3, <1>5, <2>1, <2>2, <2>3, JournalGrows DEF CoreInv
<1>8. HeardStep(e) => journal'[n] = e /\ Heeded' = Heeded \cup {n}
  <2> SUFFICES ASSUME HeardStep(e) PROVE journal'[n] = e /\ Heeded' = Heeded \cup {n}
    OBVIOUS
  <2>1. journal'[n] = e
    BY <1>5 DEF f
  <2>2. behind' = behind
    BY DEF HeardStep
  <2>3. 1..n = (1..Len(journal)) \cup {n} /\ n \notin behind
    BY <1>1
  <2> QED BY <1>1, <1>6, <2>1, <2>2, <2>3 DEF Heeded
<1>9. LostStep(e) => journal'[n].lost /\ Heeded' = Heeded
  <2> SUFFICES ASSUME LostStep(e) PROVE journal'[n].lost /\ Heeded' = Heeded
    OBVIOUS
  <2>1. journal'[n].lost
    <3>1. Append(journal, [e EXCEPT !.lost = TRUE])[n] = [e EXCEPT !.lost = TRUE]
      BY <1>1, AppendIs
    <3> QED BY <1>4, <3>1
  <2>2. behind' = behind \cup {n}
    BY DEF LostStep
  <2>3. 1..n = (1..Len(journal)) \cup {n} /\ n \notin 1..Len(journal)
    BY <1>1
  <2> QED BY <1>1, <1>6, <2>1, <2>2, <2>3 DEF Heeded
<1> QED BY <1>1, <1>3, <1>5, <1>6, <1>7, <1>8, <1>9

LEMMA ProjectRecords ==
  ASSUME NEW d, IsProjection(d), NEW n, NEW e
  PROVE  /\ Project(d, n, e).records = Apply(d, n, e).records
         /\ Project(d, n, e).since = Apply(d, n, e).since
<1>1. CASE e.kind = "comment"
  BY <1>1, CommentProjected, CommentApplied
<1>2. CASE e.kind # "comment"
  BY <1>2 DEF Project
<1> QED BY <1>1, <1>2

LEMMA KnownGrows ==
  ASSUME CoreInv, NEW e, NewFits(e), Len(journal) < MaxEvents, HeardStep(e) \/ LostStep(e)
  PROVE  Known(journal', Heeded')
<1> DEFINE n == Len(journal) + 1
<1>1. /\ DOMAIN journal = 1..Len(journal) /\ Len(journal) \in Nat /\ Heeded \subseteq DOMAIN journal
      /\ DOMAIN journal' = 1..n /\ \A m \in 1..Len(journal) : journal'[m] = journal[m]
      /\ journal'[n].kind = e.kind /\ journal'[n].entity = e.entity /\ journal'[n].id = e.id
      /\ Heeded \subseteq Heeded'
  BY CoreFacts, AppendShape
<1>2. \A b \in Born(journal, Heeded) :
        b \in Born(journal', Heeded') /\ journal'[b] = journal[b] /\ b < n
  BY <1>1 DEF Born
<1> SUFFICES ASSUME NEW m \in 1..n, journal'[m].kind \in {"updated", "moved"}
             PROVE  \E b \in Born(journal', Heeded') :
                      b < m /\ journal'[b].id = journal'[m].id /\ journal'[b].entity = journal'[m].entity
  BY <1>1 DEF Known
<1>3. CASE m \in 1..Len(journal)
  <2>1. PICK b \in Born(journal, Heeded) :
          b < m /\ journal[b].id = journal[m].id /\ journal[b].entity = journal[m].entity
    BY <1>1, <1>3 DEF CoreInv, Known
  <2> QED BY <1>1, <1>2, <1>3, <2>1
<1>4. CASE m = n
  <2>1. e.id \in DOMAIN db.records /\ db.records[e.id].entity = e.entity
    BY <1>1, <1>4 DEF NewFits, Of
  <2>2. PICK b \in Born(journal, Heeded) : journal[b].id = e.id /\ db.records[e.id].entity = journal[b].entity
    <3>1. RecordsTold(journal, Heeded, db)
      BY DEF CoreInv, Told
    <3>2. e.id \in DOMAIN db.records
      BY <2>1
    <3> QED BY <3>1, <3>2, RecordBorn
  <2> QED BY <1>1, <1>2, <1>4, <2>1, <2>2
<1> QED BY <1>1, <1>3, <1>4

LEMMA HeardKeepsCore ==
  ASSUME CoreInv, NEW e, NewFits(e), Len(journal) < MaxEvents, HeardStep(e)
  PROVE  CoreInv'
<1> DEFINE n == Len(journal) + 1
           T == Heeded
<1>1. /\ n \in Nat /\ DOMAIN journal' = 1..n
      /\ \A m \in T : journal'[m] = journal[m] /\ m < n
      /\ journal'[n] = e /\ Heeded' = T \cup {n} /\ JournalInv' /\ EventFits(journal'[n])
      /\ \A m \in DOMAIN journal : m \in DOMAIN journal' /\ journal'[m] = journal[m]
      /\ T \in SUBSET Nat /\ T \subseteq 1..n
  BY CoreFacts, AppendShape
<1>2. Known(journal', T \cup {n})
  BY <1>1, KnownGrows
<1>3. Sound(journal', T \cup {n})
  <2>1. T \cup {n} \subseteq DOMAIN journal'
    <3>1. n \in 1..n
      BY CoreFacts
    <3> HIDE DEF n, T
    <3> QED BY <1>1, <3>1
  <2> QED BY <1>1, <1>2, <2>1, SoundOf DEF JournalInv
<1>4. Told(journal', T, db)
  BY <1>1, ToldOn DEF CoreInv
<1>5. journal'[n].kind \in Kinds /\ (journal'[n].kind = "created" => IsMap(journal'[n].body.values))
  BY <1>1 DEF EventFits
<1>6. /\ Follows(journal', T, db, n)
      /\ journal'[n].kind = "created" =>
           \A m \in T : journal'[m].id = journal'[n].id =>
             journal'[m].kind \notin {"created", "updated", "moved"}
  <2> HIDE DEF n, T
  <2> QED BY <1>1, <1>3, <1>4, <1>5, NextFollows
<1>7. db' = Project(db, n, journal'[n])
  BY <1>1 DEF HeardStep
<1>8. Told(journal', T \cup {n}, db')
  <2> HIDE DEF n, T
  <2> QED BY <1>1, <1>4, <1>6, <1>7, ProjectKeeps
<1>9. ValuesInv'
  <2> SUFFICES ASSUME NEW b \in Born(journal', T \cup {n}), journal'[b].id \notin skew
               PROVE  AsTold(journal', T \cup {n}, db', journal'[b].id)
    BY <1>1 DEF ValuesInv, HeardStep
  <2>1. /\ IsProjection(db) /\ db'.records = Apply(db, n, journal'[n]).records
        /\ db'.since = Apply(db, n, journal'[n]).since
    BY <1>7, ProjectRecords DEF CoreInv, Told
  <2>2. CASE b = n
    <3>1. journal'[n].kind = "created"
      BY <2>2 DEF Born
    <3>2. n \in Nat /\ \A m \in T : journal'[m].id = journal'[n].id =>
            journal'[m].kind \notin {"created", "updated", "moved"}
      BY <1>1, <1>6, <3>1
    <3> DEFINE j == journal'
               d == db
    <3> HIDE DEF n, T, j, d
    <3>3. AsTold(j, T \cup {n}, Apply(d, n, j[n]), j[n].id)
      <4>1. j[n].kind = "created" /\ IsProjection(d)
            /\ \A m \in T : j[m].id = j[n].id => j[m].kind \notin {"created", "updated", "moved"}
        BY <2>1, <3>1, <3>2 DEF j, d
      <4> QED BY <3>2, <4>1, ValuesOfBirth
    <3> QED BY <2>1, <2>2, <3>3 DEF j, d, AsTold, SinceLast
  <2>3. CASE b # n
    <3>1. b \in Born(journal, T) /\ journal'[b] = journal[b]
      BY <1>1, <2>3 DEF Born
    <3>2. AsTold(journal, T, db, journal[b].id)
      BY <3>1 DEF CoreInv, ValuesInv
    <3>3. AsTold(journal', T, db, journal'[b].id)
      BY <1>1, <3>1, <3>2, ValuesOn
    <3>4. journal'[b].id \in DOMAIN db.records
      BY <3>1 DEF CoreInv, Told, RecordsTold
    <3>5. journal'[n].kind = "created" => journal'[n].id # journal'[b].id
      BY <1>6, <3>1 DEF Born
    <3> DEFINE x == journal'[b].id
    <3> HIDE DEF n, T, x
    <3>6. AsTold(journal', T \cup {n}, Apply(db, n, journal'[n]), x)
      <4>1. x \in DOMAIN db.records /\ AsTold(journal', T, db, x)
            /\ (journal'[n].kind = "created" => journal'[n].id # x)
        BY <3>3, <3>4, <3>5 DEF x
      <4> QED BY <1>1, <1>4, <1>6, <4>1, FollowsSucceeds, ValuesApplied
    <3> QED BY <2>1, <3>6 DEF x, AsTold, SinceLast
  <2> QED BY <2>2, <2>3
<1>10. behind' \subseteq Lost'
  BY <1>1 DEF CoreInv, Lost, HeardStep
<1> QED BY <1>1, <1>2, <1>8, <1>9, <1>10 DEF CoreInv, HeardStep

LEMMA LostKeepsCore ==
  ASSUME CoreInv, NEW e, NewFits(e), Len(journal) < MaxEvents, LostStep(e)
  PROVE  CoreInv'
<1> DEFINE n == Len(journal) + 1
           T == Heeded
<1>1. /\ n \in Nat /\ DOMAIN journal' = 1..n
      /\ \A m \in T : journal'[m] = journal[m]
      /\ journal'[n].lost /\ Heeded' = T /\ JournalInv'
      /\ \A m \in DOMAIN journal : m \in DOMAIN journal' /\ journal'[m] = journal[m]
  BY CoreFacts, AppendShape
<1>2. Known(journal', T)
  BY <1>1, KnownGrows
<1>3. Told(journal', T, db')
  BY <1>1, ToldOn DEF CoreInv, LostStep
<1>4. ValuesInv'
  <2> SUFFICES ASSUME NEW b \in Born(journal', T), journal'[b].id \notin skew
               PROVE  AsTold(journal', T, db, journal'[b].id)
    BY <1>1 DEF ValuesInv, LostStep
  <2>1. b \in Born(journal, T) /\ journal'[b] = journal[b]
    BY <1>1 DEF Born
  <2>2. AsTold(journal, T, db, journal[b].id)
    BY <2>1 DEF CoreInv, ValuesInv
  <2> QED BY <1>1, <2>1, <2>2, ValuesOn
<1>5. behind' \subseteq Lost'
  BY <1>1 DEF CoreInv, Lost, LostStep
<1> QED BY <1>1, <1>2, <1>3, <1>4, <1>5 DEF CoreInv, LostStep

-----------------------------------------------------------------------------
(* Defaults only add to the values that a call brings.                     *)
LEMMA WithDefaultKeeps ==
  ASSUME NEW d, NEW known, IsMap(known), NEW actorID, NEW now, NEW records
  PROVE  LET v == WithDefault(d, known, actorID, now, records)
         IN  /\ IsMap(v) /\ DOMAIN known \subseteq DOMAIN v
             /\ \A f \in DOMAIN known : v[f] = known[f]
<1> DEFINE found == DefaultOf(d, known, actorID, now, records)
           w == Over(Entry(d.name, CHOOSE v \in found : TRUE), known)
<1>1. CASE found = {}
  BY <1>1 DEF WithDefault
<1>2. CASE found # {}
  <2>1. d.name \notin DOMAIN known
    BY <1>2 DEF DefaultOf
  <2>2. WithDefault(d, known, actorID, now, records) = w
    BY <1>2 DEF WithDefault
  <2> HIDE DEF found
  <2>3. IsMap(w) /\ DOMAIN known \subseteq DOMAIN w /\ \A f \in DOMAIN known : w[f] = known[f]
    BY <2>1 DEF Over, Entry, IsMap
  <2> QED BY <2>2, <2>3
<1> QED BY <1>1, <1>2

FillStep(decl, values, actorID, now, records, g, i) ==
  IF i = 0 THEN values
  ELSE WithDefault(decl.fields[i], g[i - 1], actorID, now, records)

IsFilled(decl, values, actorID, now, records, k, g) ==
  g = [i \in 0..k |-> FillStep(decl, values, actorID, now, records, g, i)]

LEMMA FillExists ==
  ASSUME NEW decl, NEW values, NEW actorID, NEW now, NEW records, NEW k \in Nat
  PROVE  \E g : IsFilled(decl, values, actorID, now, records, k, g)
<1> DEFINE Step(g, i) == FillStep(decl, values, actorID, now, records, g, i)
           Bad == {m \in Nat : ~\E g : g = [i \in 0..m |-> Step(g, i)]}
<1> SUFFICES ASSUME Bad # {} PROVE FALSE
  BY DEF IsFilled
<1>1. PICK m \in Bad : \A l \in Bad : m <= l
  <2>1. Bad \in SUBSET Nat
    OBVIOUS
  <2> HIDE DEF Bad
  <2> QED BY <2>1, LeastNumber
<1>2. m # 0
  <2> DEFINE g == [i \in 0..0 |-> values]
  <2>1. g = [i \in 0..0 |-> Step(g, i)]
    BY DEF FillStep
  <2> HIDE DEF g
  <2> QED BY <1>1, <2>1
<1>3. PICK g : g = [i \in 0..(m - 1) |-> Step(g, i)]
  <2>1. m - 1 \in Nat /\ m - 1 \notin Bad
    BY <1>1, <1>2
  <2> QED BY <2>1
<1> DEFINE h == [i \in 0..m |-> IF i < m THEN g[i] ELSE Step(g, i)]
<1>4. ASSUME NEW i \in 0..m
      PROVE  h[i] = Step(h, i)
  <2>1. i # 0 => i - 1 \in 0..m /\ i - 1 < m
    BY <1>1
  <2>2. Step(h, i) = Step(g, i)
    BY <2>1 DEF FillStep
  <2>3. i < m => g[i] = Step(g, i)
    <3>1. i < m => i \in 0..(m - 1)
      BY <1>1
    <3> HIDE DEF Step
    <3> QED BY <1>3, <3>1
  <2> QED BY <2>2, <2>3
<1>5. h = [i \in 0..m |-> Step(h, i)]
  <2>1. h = [i \in 0..m |-> h[i]]
    OBVIOUS
  <2> HIDE DEF h, Step
  <2> QED BY <1>4, <2>1
<1> HIDE DEF h
<1> QED BY <1>1, <1>5

LEMMA DefaultedKeeps ==
  ASSUME NEW decl, Len(decl.fields) \in Nat, NEW values, IsMap(values),
         NEW actorID, NEW now, NEW records
  PROVE  LET v == Defaulted(decl, values, actorID, now, records)
         IN  /\ IsMap(v) /\ DOMAIN values \subseteq DOMAIN v
             /\ \A f \in DOMAIN values : v[f] = values[f]
<1> DEFINE L == Len(decl.fields)
           rec(g) == [i \in 0..L |->
                        IF i = 0 THEN values
                        ELSE WithDefault(decl.fields[i], g[i - 1], actorID, now, records)]
           filled == CHOOSE g : g = rec(g)
           Good(v) == /\ IsMap(v) /\ DOMAIN values \subseteq DOMAIN v
                      /\ \A f \in DOMAIN values : v[f] = values[f]
           Bad == {i \in 0..L : ~Good(filled[i])}
<1>1. \E g : g = rec(g)
  <2>1. PICK g : IsFilled(decl, values, actorID, now, records, L, g)
    BY FillExists
  <2>2. g = rec(g)
    BY <2>1 DEF IsFilled, FillStep
  <2> HIDE DEF rec
  <2> QED BY <2>2
<1>2. filled = rec(filled)
  <2> HIDE DEF rec
  <2> QED BY <1>1
<1>3. Defaulted(decl, values, actorID, now, records) = filled[L]
  BY DEF Defaulted
<1> HIDE DEF filled
<1>4. filled[0] = values
  BY <1>2
<1>5. \A i \in 1..L : filled[i] = WithDefault(decl.fields[i], filled[i - 1], actorID, now, records)
  BY <1>2
<1> HIDE DEF rec
<1> SUFFICES ASSUME Bad # {} PROVE FALSE
  <2>1. L \in 0..L /\ L \notin Bad
    OBVIOUS
  <2> QED BY <1>3, <2>1
<1>6. PICK i \in Bad : \A k \in Bad : i <= k
  <2>1. Bad \in SUBSET Nat
    OBVIOUS
  <2> HIDE DEF Bad
  <2> QED BY <2>1, LeastNumber
<1>7. i \in 0..L /\ ~Good(filled[i])
  BY <1>6
<1>8. i # 0
  BY <1>4, <1>7
<1>9. i \in 1..L /\ i - 1 \in 0..L /\ ~(i <= i - 1)
  BY <1>7, <1>8
<1>10. Good(filled[i - 1])
  <2>1. i - 1 \notin Bad
    <3> HIDE DEF Bad
    <3> QED BY <1>6, <1>9
  <2> QED BY <1>9, <2>1
<1>11. filled[i] = WithDefault(decl.fields[i], filled[i - 1], actorID, now, records)
  BY <1>5, <1>9
<1>12. ASSUME NEW d, NEW known, Good(known)
       PROVE  Good(WithDefault(d, known, actorID, now, records))
  <2> DEFINE v == WithDefault(d, known, actorID, now, records)
  <2>1. /\ IsMap(v) /\ DOMAIN known \subseteq DOMAIN v
        /\ \A f \in DOMAIN known : v[f] = known[f]
    BY <1>12, WithDefaultKeeps
  <2> HIDE DEF v
  <2>2. Good(v)
    BY <1>12, <2>1
  <2> QED BY <2>2 DEF v
<1> HIDE DEF Good
<1>13. Good(filled[i])
  BY <1>10, <1>11, <1>12
<1> QED BY <1>7, <1>13

LEMMA DeclFacts ==
  ASSUME NEW e \in Entity
  PROVE  /\ Len(Decl[e].fields) \in Nat /\ DOMAIN Decl[e].fields = 1..Len(Decl[e].fields)
         /\ \A c, d \in Fields(Decl[e]) : c.name = d.name => c = d
         /\ \A d \in Fields(Decl[e]) : d.name = StateField[e] => d.type.kind = "enum"
<1>1. IsSequence(Decl[e].fields)
  BY DeclAssumption
<1>2. \A i, k \in DOMAIN Decl[e].fields :
        Decl[e].fields[i].name = Decl[e].fields[k].name => i = k
  BY DeclAssumption
<1>3. \A d \in Fields(Decl[e]) : d.name = StateField[e] => d.type.kind = "enum"
  BY DeclAssumption
<1>4. \A c, d \in Fields(Decl[e]) : c.name = d.name => c = d
  BY <1>2 DEF Fields
<1> QED BY <1>1, <1>3, <1>4, SequenceIs

LEMMA PreparedIs ==
  ASSUME NEW e \in Entity, NEW given
  PROVE  LET numbered == AssignSerials(e, Decl[e], given, day, db.records)
             v == Prepared(e, given)
         IN  /\ IsMap(numbered) /\ IsMap(v) /\ DOMAIN numbered \subseteq DOMAIN v
             /\ \A f \in DOMAIN numbered : v[f] = numbered[f]
<1>1. IsMap(AssignSerials(e, Decl[e], given, day, db.records))
  BY DEF AssignSerials, Over, IsMap
<1> QED BY <1>1, DeclFacts, DefaultedKeeps DEF Prepared

-----------------------------------------------------------------------------
(* A call repeated under its key projects an event of its own making.      *)
LEMMA AgainEvent ==
  ASSUME NEW e, IsEvent(e), NEW b
  PROVE  LET f == [e EXCEPT !.body = b]
         IN  /\ f.kind = e.kind /\ f.entity = e.entity /\ f.id = e.id /\ f.body = b
             /\ b = e.body => f = e
<1> DEFINE g == [kind |-> e.kind, entity |-> e.entity, id |-> e.id, body |-> e.body,
                 key |-> e.key, day |-> e.day, lost |-> e.lost]
           f == [g EXCEPT !.body = b]
<1>1. e = g
  BY DEF IsEvent
<1>2. f.kind = e.kind /\ f.entity = e.entity /\ f.id = e.id /\ f.body = b
  OBVIOUS
<1>3. ASSUME b = e.body PROVE f = g
  BY <1>3
<1> HIDE DEF g
<1> QED BY <1>1, <1>2, <1>3

Marks(x, exact) ==
  \/ exact /\ UNCHANGED <<skew, rewritten>>
  \/ skew' = skew \cup {x} /\ rewritten' = rewritten \cup {x}

(* A create repeated, over a birth the projection was not told of.         *)
Again(n, b) ==
  /\ n \in behind /\ journal[n].kind = "created" /\ IsMap(b.values)
  /\ journal[n].id \notin DOMAIN db.records
  /\ \A m \in DOMAIN journal : journal[m].id = journal[n].id =>
       m = n \/ journal[m].kind \notin {"created", "updated", "moved"}
  /\ IsProjection(db')
  /\ db'.records = Over(Entry(journal[n].id, [entity |-> journal[n].entity, values |-> b.values]),
                        db.records)
  /\ db'.since = Over(Entry(journal[n].id, n), db.since)
  /\ db'.links = db.links /\ db'.comments = db.comments /\ db'.tasks = db.tasks
  /\ db' = Apply(db, n, [journal[n] EXCEPT !.body = b])
  /\ behind' = behind \ {n} /\ Heeded' = Heeded \cup {n}
  /\ Marks(journal[n].id, b.values = journal[n].body.values)
  /\ ticked' = FALSE /\ UNCHANGED <<journal, day>>

LEMMA AgainShape ==
  ASSUME CoreInv, NEW e \in Entity, NEW given, NEW key \in Keys \cup {NoKey},
         CreateAgain(e, given, key)
  PROVE  \E n \in behind : \E b : Again(n, b)
<1> DEFINE v == Prepared(e, given)
           b == Body(v, given)
<1>1. PICK n \in ByIdemKey(journal, key) :
        /\ journal[n].kind = "created" /\ journal[n].entity = e /\ ~Exists(e, journal[n].id)
        /\ db' = Apply(db, n, [journal[n] EXCEPT !.body = b])
        /\ behind' = behind \ {n}
        /\ Marks(journal[n].id, b = journal[n].body)
        /\ ticked' = FALSE /\ UNCHANGED <<journal, day>>
  BY DEF CreateAgain, Repeats, AsStored, Marks
<1>2. n \in DOMAIN journal /\ EventFits(journal[n])
  BY <1>1 DEF ByIdemKey, CoreInv, JournalInv
<1>3. journal[n].kind = "created"
  BY <1>1
<1>4. IsMap(v) /\ b.values = v /\ IsEvent(journal[n])
  BY <1>2, PreparedIs DEF EventFits, Body
<1>10. Marks(journal[n].id, b.values = journal[n].body.values)
  BY <1>1 DEF Marks
<1>5. n \notin Heeded
  <2> SUFFICES ASSUME n \in Heeded PROVE FALSE
    OBVIOUS
  <2>1. n \in Born(journal, Heeded)
    BY <1>3 DEF Born
  <2>2. /\ journal[n].id \in DOMAIN db.records
        /\ LET r == db.records[journal[n].id] IN r = [entity |-> journal[n].entity, values |-> r.values]
    BY <2>1 DEF CoreInv, Told, RecordsTold
  <2>3. db.records[journal[n].id].entity = e
    BY <1>1, <2>2
  <2> QED BY <1>1, <2>2, <2>3 DEF Exists, Of
<1>6. n \in behind /\ Heeded' = Heeded \cup {n}
  BY <1>1, <1>2, <1>5 DEF Heeded
<1>7. \A m \in DOMAIN journal : journal[m].id = journal[n].id =>
        m = n \/ journal[m].kind \notin {"created", "updated", "moved"}
  <2> SUFFICES ASSUME NEW m \in DOMAIN journal, journal[m].id = journal[n].id, m # n,
                      journal[m].kind \in {"created", "updated", "moved"}
               PROVE  FALSE
    OBVIOUS
  <2>1. BornOnce(journal)
    BY DEF CoreInv, JournalInv
  <2>2. journal[m].kind \in {"updated", "moved"}
    BY <1>2, <1>3, <2>1 DEF BornOnce
  <2>3. PICK c \in Born(journal, Heeded) : journal[c].id = journal[m].id
    BY <2>2 DEF CoreInv, Known
  <2>4. c \in DOMAIN journal /\ c \in Heeded /\ journal[c].kind = "created"
    BY <2>3, CoreFacts DEF Born
  <2>5. c = n
    BY <1>2, <1>3, <2>1, <2>3, <2>4 DEF BornOnce
  <2> QED BY <1>5, <2>4, <2>5
<1>8. journal[n].id \notin DOMAIN db.records
  <2> SUFFICES ASSUME journal[n].id \in DOMAIN db.records PROVE FALSE
    OBVIOUS
  <2>1. PICK c \in Born(journal, Heeded) : journal[c].id = journal[n].id
    BY DEF CoreInv, Told, RecordsTold
  <2>2. c \in DOMAIN journal /\ c \in Heeded /\ journal[c].kind = "created"
    BY <2>1, CoreFacts DEF Born
  <2> QED BY <1>5, <1>7, <2>1, <2>2
<1>9. /\ IsProjection(db')
      /\ db'.records = Over(Entry(journal[n].id, [entity |-> journal[n].entity, values |-> b.values]),
                            db.records)
      /\ db'.since = Over(Entry(journal[n].id, n), db.since)
      /\ db'.links = db.links /\ db'.comments = db.comments /\ db'.tasks = db.tasks
  <2> DEFINE f == [journal[n] EXCEPT !.body = b]
  <2>1. f.kind = "created" /\ f.entity = journal[n].entity /\ f.id = journal[n].id /\ f.body = b
    BY <1>3, <1>4, AgainEvent
  <2>2. IsProjection(db) /\ db' = Apply(db, n, f)
    BY <1>1 DEF CoreInv, Told
  <2> HIDE DEF f
  <2> QED BY <2>1, <2>2, CreatedApplied
<1> HIDE DEF v, b
<1> QED BY <1>1, <1>3, <1>4, <1>6, <1>7, <1>8, <1>9, <1>10 DEF Again

LEMMA JournalStays ==
  ASSUME JournalInv, UNCHANGED journal
  PROVE  JournalInv'
<1>1. \A kind : Count(kind)' = Count(kind)
  BY DEF Count
<1> QED BY <1>1 DEF JournalInv

LEMMA AsToldStays ==
  ASSUME NEW j, NEW T, NEW n, NEW x, NEW d, NEW p, AsTold(j, T, d, x), j[n].id # x,
         p.records[x] = d.records[x], p.since[x] = d.since[x]
  PROVE  AsTold(j, T \cup {n}, p, x)
<1>1. ValuesTold(j, T \cup {n}, x, p.records[x].values)
  BY ValuesStay DEF AsTold
<1>2. SinceLast(j, T \cup {n}, p, x)
  BY DEF AsTold, SinceLast, Enters
<1> QED BY <1>1, <1>2 DEF AsTold

LEMMA AgainKeepsCore ==
  ASSUME CoreInv, NEW n \in behind, NEW b, Again(n, b)
  PROVE  CoreInv'
<1> DEFINE T == Heeded
           f == [journal[n] EXCEPT !.body = b]
           x == journal[n].id
<1>1. /\ n \in Nat /\ n \in DOMAIN journal /\ n \in Lost /\ T \in SUBSET Nat /\ T \subseteq DOMAIN journal
      /\ IsProjection(db) /\ journal[n].kind = "created" /\ IsMap(b.values) /\ journal' = journal
      /\ Heeded' = T \cup {n} /\ db' = Apply(db, n, f)
      /\ EventFits(journal[n]) /\ n \notin T
      /\ \A m \in DOMAIN journal : journal[m].id = x =>
           m = n \/ journal[m].kind \notin {"created", "updated", "moved"}
  BY CoreFacts DEF CoreInv, Again, Told, JournalInv, Heeded
<1>2. f.kind = "created" /\ f.entity = journal[n].entity /\ f.id = x /\ f.body = b
  <2>1. IsEvent(journal[n])
    BY <1>1 DEF EventFits
  <2> QED BY <1>1, <2>1, AgainEvent
<1>3. \A m \in T : journal[m].id = x => journal[m].kind \notin {"created", "updated", "moved"}
  BY <1>1
<1> HIDE DEF f
<1>4. Told(journal, T \cup {n}, db')
  <2>1. \A m \in T : ~Enters(journal[m], journal[n].id)
    BY <1>3 DEF Enters
  <2>2. IsMap(f.body.values)
    BY <1>1, <1>2
  <2>3. Told(journal, T, db)
    BY DEF CoreInv
  <2> HIDE DEF T
  <2> QED BY <1>1, <1>2, <2>1, <2>2, <2>3, CreatedKeeps
<1>5. JournalInv'
  BY <1>1, JournalStays DEF CoreInv
<1>6. Known(journal, T \cup {n})
  BY DEF CoreInv, Known, Born
<1>7. ValuesInv'
  <2> SUFFICES ASSUME NEW c \in Born(journal, T \cup {n}), journal[c].id \notin skew'
               PROVE  AsTold(journal, T \cup {n}, db', journal[c].id)
    BY <1>1 DEF ValuesInv
  <2>1. CASE c = n
    <3>1. b.values = journal[n].body.values
      BY <1>1, <2>1 DEF Again, Marks
    <3>2. AsTold(journal, T \cup {n}, Apply(db, n, f), x)
      BY <1>1, <1>2, <1>3, <3>1, ValuesOfBirth
    <3> QED BY <1>1, <2>1, <3>2
  <2>2. CASE c # n
    <3>1. c \in Born(journal, T) /\ journal[c].id # x
      BY <1>3, <2>2 DEF Born
    <3>2. AsTold(journal, T, db, journal[c].id)
      BY <3>1 DEF CoreInv, ValuesInv, Again, Marks
    <3>3. journal[c].id \in DOMAIN db.records /\ journal[c].id \in DOMAIN db.since
      BY <3>1 DEF CoreInv, Told, RecordsTold, SinceTold
    <3>4. /\ db'.records[journal[c].id] = db.records[journal[c].id]
          /\ db'.since[journal[c].id] = db.since[journal[c].id]
      BY <3>1, <3>3 DEF Again, Over, Entry
    <3> QED BY <3>1, <3>2, <3>4, AsToldStays
  <2> QED BY <2>1, <2>2
<1>8. behind' \subseteq Lost' /\ skew' \subseteq rewritten'
  BY <1>1 DEF CoreInv, Lost, Again, Marks
<1> QED BY <1>1, <1>4, <1>5, <1>6, <1>7, <1>8 DEF CoreInv, Again

(* An update or a transition repeated, over an event told or not.          *)
Rewrites(n, b) ==
  LET x == journal[n].id
      e == journal[n]
      w == IF e.kind = "moved" THEN Entry(StateField[e.entity], b) ELSE b
  IN  /\ n \in DOMAIN journal /\ e.kind \in {"updated", "moved"}
      /\ x \in DOMAIN db.records /\ db.records[x].entity = e.entity
      /\ e.kind = "updated" => StateField[e.entity] \notin DOMAIN b
      /\ db' = Apply(db, n, [e EXCEPT !.body = b])
      /\ IsProjection(db') /\ DOMAIN db'.records = DOMAIN db.records
      /\ db'.records[x] = [entity |-> e.entity, values |-> Over(w, db.records[x].values)]
      /\ \A y \in DOMAIN db.records \ {x} : db'.records[y] = db.records[y]
      /\ db'.since = IF e.kind = "moved" THEN Over(Entry(x, n), db.since) ELSE db.since
      /\ db'.links = db.links /\ db'.comments = db.comments /\ db'.tasks = db.tasks
      /\ behind' = behind \ {n} /\ Heeded' = Heeded \cup {n}
      /\ Marks(x, AsStored(n, b))
      /\ ticked' = FALSE /\ UNCHANGED <<journal, day>>

LEMMA RewriteShape ==
  ASSUME CoreInv, NEW n \in DOMAIN journal, NEW b, Repeats(n, b), NEW e \in Entity,
         Exists(e, journal[n].id), journal[n].kind \in {"updated", "moved"},
         journal[n].kind = "updated" => StateField[e] \notin DOMAIN b
  PROVE  Rewrites(n, b)
<1> DEFINE x == journal[n].id
           f == [journal[n] EXCEPT !.body = b]
           r == db.records[x]
           w == Entry(StateField[f.entity], f.body)
<1>1. IsEvent(journal[n])
  BY DEF CoreInv, JournalInv, EventFits
<1>2. f.kind = journal[n].kind /\ f.entity = journal[n].entity /\ f.id = x /\ f.body = b
  BY <1>1, AgainEvent
<1>3. /\ db' = Apply(db, n, f) /\ behind' = behind \ {n} /\ ticked' = FALSE
      /\ UNCHANGED <<journal, day>> /\ Marks(x, AsStored(n, b))
  BY DEF Repeats, Marks
<1>4. Heeded' = Heeded \cup {n}
  BY <1>3 DEF Heeded
<1>5. x \in DOMAIN db.records /\ r.entity = e
  BY DEF Exists, Of
<1>6. journal[n].entity = e
  <2>1. PICK c \in Born(journal, Heeded) : journal[c].id = x /\ journal[c].entity = journal[n].entity
    BY DEF CoreInv, Known
  <2>2. LET q == db.records[x] IN q = [entity |-> journal[c].entity, values |-> q.values]
    BY <2>1 DEF CoreInv, Told, RecordsTold
  <2> QED BY <1>5, <2>1, <2>2
<1>7. /\ IsProjection(db) /\ IsMap(db.records)
      /\ r = [entity |-> r.entity, values |-> r.values]
  BY <1>5, RecordIs DEF CoreInv, Told, RecordsTold
<1> HIDE DEF f
<1>8. CASE journal[n].kind = "updated"
  <2>1. /\ IsProjection(db') /\ DOMAIN db'.records = DOMAIN db.records
        /\ db'.records[x] = [entity |-> r.entity, values |-> Over(f.body, r.values)]
        /\ \A y \in DOMAIN db.records \ {x} : db'.records[y] = db.records[y]
        /\ db'.since = db.since
        /\ db'.links = db.links /\ db'.comments = db.comments /\ db'.tasks = db.tasks
    BY <1>2, <1>3, <1>5, <1>7, <1>8, UpdatedApplied
  <2> QED BY <1>2, <1>3, <1>4, <1>5, <1>6, <1>8, <2>1 DEF Rewrites, f
<1>9. CASE journal[n].kind = "moved"
  <2>1. /\ IsProjection(db') /\ DOMAIN db'.records = DOMAIN db.records
        /\ db'.records[x] = [entity |-> r.entity, values |-> Over(w, r.values)]
        /\ \A y \in DOMAIN db.records \ {x} : db'.records[y] = db.records[y]
        /\ db'.since = Over(Entry(x, n), db.since)
        /\ db'.links = db.links /\ db'.comments = db.comments /\ db'.tasks = db.tasks
    BY <1>2, <1>3, <1>5, <1>7, <1>9, MovedApplied
  <2> QED BY <1>2, <1>3, <1>4, <1>5, <1>6, <1>9, <2>1 DEF Rewrites, f
<1> QED BY <1>8, <1>9

LEMMA UpdateAgainShape ==
  ASSUME CoreInv, NEW e \in Entity, NEW id, NEW values, NEW key, UpdateAgain(e, id, values, key)
  PROVE  \E n, b : Rewrites(n, b)
<1>1. PICK n \in ByIdemKey(journal, key) :
        /\ journal[n].kind = "updated" /\ journal[n].id = id
        /\ Exists(e, id) /\ StateField[e] \notin DOMAIN values
        /\ Repeats(n, Changed(id, values))
  BY DEF UpdateAgain, MayUpdate
<1>2. n \in DOMAIN journal /\ StateField[e] \notin DOMAIN Changed(id, values)
  BY <1>1 DEF ByIdemKey, Changed, Differing
<1> QED BY <1>1, <1>2, RewriteShape

LEMMA MoveAgainShape ==
  ASSUME CoreInv, NEW e \in Entity, NEW id, NEW to, NEW key, MoveAgain(e, id, to, key)
  PROVE  \E n : journal[n].kind = "moved" /\ Rewrites(n, Text(to))
<1>1. PICK n \in ByIdemKey(journal, key) :
        /\ journal[n].kind = "moved" /\ journal[n].id = id /\ Exists(e, id)
        /\ Repeats(n, Text(to))
  BY DEF MoveAgain, MayMove
<1>2. n \in DOMAIN journal
  BY DEF ByIdemKey
<1> QED BY <1>1, <1>2, RewriteShape

LEMMA ExactSucceeds ==
  ASSUME CoreInv, NEW n \in DOMAIN journal, NEW b, AsStored(n, b),
         journal[n].kind \in {"updated", "moved"}, journal[n].id \in DOMAIN db.records
  PROVE  Succeeds(journal, Heeded, db, n)
<1>1. DOMAIN journal = 1..Len(journal) /\ Len(journal) \in Nat /\ Heeded \subseteq DOMAIN journal
  BY CoreFacts
<1>2. PICK c \in Born(journal, Heeded) : c < n /\ journal[c].id = journal[n].id
  BY DEF CoreInv, Known
<1>3. ASSUME NEW m \in Heeded, journal[m].id = journal[n].id
      PROVE  m <= n \/ journal[m].kind \notin {"created", "updated", "moved"}
  <2>1. CASE journal[m].kind = "created"
    <3>1. m = c
      BY <1>1, <1>2, <1>3, <2>1 DEF CoreInv, JournalInv, BornOnce, Born
    <3> QED BY <1>1, <1>2, <3>1
  <2>2. CASE journal[m].kind # "created" /\ m > n
    <3>1. m \in (n + 1)..Len(journal)
      BY <1>1, <2>2
    <3> QED BY <1>3, <2>2, <3>1 DEF AsStored
  <2> QED BY <1>1, <2>1, <2>2
<1>4. n \in Nat /\ journal[n].kind \in Kinds
  BY <1>1 DEF Kinds
<1> QED BY <1>3, <1>4 DEF Succeeds

LEMMA RewriteKeepsCore ==
  ASSUME CoreInv, NEW n, NEW b, Rewrites(n, b)
  PROVE  CoreInv'
<1> DEFINE T == Heeded
           f == [journal[n] EXCEPT !.body = b]
           x == journal[n].id
<1>1. /\ n \in Nat /\ n \in DOMAIN journal /\ T \in SUBSET Nat /\ T \subseteq DOMAIN journal
      /\ journal[n].kind \in {"updated", "moved"} /\ x \in DOMAIN db.records
      /\ journal' = journal /\ Heeded' = T \cup {n} /\ db' = Apply(db, n, f)
      /\ EventFits(journal[n]) /\ Told(journal, T, db)
  BY CoreFacts DEF CoreInv, Rewrites, JournalInv
<1>2. /\ f.kind = journal[n].kind /\ f.entity = journal[n].entity /\ f.id = x /\ f.body = b
      /\ b = journal[n].body => f = journal[n]
  BY <1>1, AgainEvent DEF EventFits
<1> HIDE DEF f
<1>3. Told(journal, T \cup {n}, db')
  <2>1. CASE journal[n].kind = "updated"
    BY <1>1, <1>2, <2>1, UpdatedKeeps
  <2>2. CASE journal[n].kind = "moved"
    BY <1>1, <1>2, <2>2, MovedKeeps
  <2> QED BY <1>1, <2>1, <2>2
<1>4. JournalInv'
  BY <1>1, JournalStays DEF CoreInv
<1>5. Known(journal, T \cup {n})
  BY DEF CoreInv, Known, Born
<1>6. ValuesInv'
  <2> SUFFICES ASSUME NEW c \in Born(journal, T \cup {n}), journal[c].id \notin skew'
               PROVE  AsTold(journal, T \cup {n}, db', journal[c].id)
    BY <1>1 DEF ValuesInv
  <2>1. c \in Born(journal, T) /\ journal[c].id \notin skew
    BY <1>1 DEF Born, Rewrites, Marks
  <2>2. AsTold(journal, T, db, journal[c].id) /\ journal[c].id \in DOMAIN db.records
    BY <2>1 DEF CoreInv, ValuesInv, Told, RecordsTold
  <2>3. CASE journal[c].id = x
    <3>1. AsStored(n, b)
      BY <2>3 DEF Rewrites, Marks
    <3>2. Succeeds(journal, T, db, n)
      BY <1>1, <3>1, ExactSucceeds
    <3>3. f = journal[n]
      BY <1>2, <3>1 DEF AsStored
    <3>4. x \in DOMAIN db.records /\ AsTold(journal, T, db, x) /\ journal[n].kind # "created"
      BY <1>1, <2>2, <2>3
    <3> HIDE DEF T, x
    <3>5. AsTold(journal, T \cup {n}, Apply(db, n, journal[n]), x)
      BY <1>1, <3>2, <3>4, ValuesApplied
    <3> QED BY <1>1, <2>3, <3>3, <3>5
  <2>4. CASE journal[c].id # x
    <3>1. journal[c].id \in DOMAIN db.since
      BY <2>2 DEF CoreInv, Told, SinceTold
    <3>2. /\ db'.records[journal[c].id] = db.records[journal[c].id]
          /\ db'.since[journal[c].id] = db.since[journal[c].id]
      BY <2>2, <2>4, <3>1 DEF Rewrites, Over, Entry
    <3> QED BY <2>2, <2>4, <3>2, AsToldStays
  <2> QED BY <2>3, <2>4
<1>7. behind' \subseteq Lost' /\ skew' \subseteq rewritten'
  BY <1>1 DEF CoreInv, Lost, Rewrites, Marks
<1> QED BY <1>1, <1>3, <1>4, <1>5, <1>6, <1>7 DEF CoreInv, Rewrites

LEMMA RestartKeepsCore ==
  ASSUME CoreInv, Restart
  PROVE  CoreInv'
<1> DEFINE N == DOMAIN journal
<1>1. /\ journal' = journal /\ day' = day /\ behind' = {} /\ skew' = {} /\ ticked' = FALSE
      /\ db' = Replay(journal, {}) /\ Heeded' = N /\ Len(journal) \in Nat /\ N = (1..Len(journal)) \ {}
      /\ Heeded \subseteq N
  BY CoreFacts DEF Restart, Heeded
<1>2. JournalInv'
  BY <1>1, JournalStays DEF CoreInv
<1>3. Known(journal, N)
  <2>1. \A b \in Born(journal, Heeded) : b \in Born(journal, N)
    BY <1>1 DEF Born
  <2> QED BY <2>1 DEF CoreInv, Known
<1>4. Sound(journal, N)
  BY <1>3, SoundOf DEF CoreInv, JournalInv
<1>5. \A n \in 1..Len(journal) :
        journal[n].kind \in Kinds /\ (journal[n].kind = "created" => IsMap(journal[n].body.values))
  BY <1>1 DEF CoreInv, JournalInv, EventFits
<1>6. Told(journal, N, db') /\ AllValuesTold(journal, N, db')
  <2>1. Sound(journal, (1..Len(journal)) \ {})
    BY <1>1, <1>4
  <2>2. Told(journal, (1..Len(journal)) \ {}, db') /\ AllValuesTold(journal, (1..Len(journal)) \ {}, db')
    BY <1>1, <1>5, <2>1, ReplayTold
  <2> QED BY <1>1, <2>2
<1>7. ValuesInv'
  BY <1>1, <1>6 DEF ValuesInv, AllValuesTold
<1> QED BY <1>1, <1>2, <1>3, <1>6, <1>7 DEF CoreInv

LEMMA NextDayKeepsCore ==
  ASSUME CoreInv, NextDay
  PROVE  CoreInv'
<1>1. /\ journal' = journal /\ db' = db /\ behind' = behind /\ skew' = skew /\ rewritten' = rewritten
      /\ day' \in 1..MaxDay /\ ticked' = FALSE
  BY BoundAssumption DEF NextDay, CoreInv
<1>2. JournalInv'
  BY <1>1, JournalStays DEF CoreInv
<1> QED BY <1>1, <1>2 DEF CoreInv, Heeded, Lost, ValuesInv

-----------------------------------------------------------------------------
(* The firings of a heartbeat: finitely many, in one order.                *)
IsFiring(f) ==
  /\ f = <<f[1], f[2], f[3]>> /\ f[1] \in DOMAIN Rules
  /\ Rules[f[1]].on \in {"schedule", "stuck"}
  /\ f[2] \in 1..Rules[f[1]].steps
  /\ f[3] \in Targets(Rules[f[1]]) /\ f[3] \in {NoField} \cup Minted

LEMMA FiringIs == \A f \in Firings : IsFiring(f)
BY DEF Firings, IsFiring

LEMMA PlaceIs ==
  ASSUME NEW x \in {NoField} \cup Minted, NEW y \in {NoField} \cup Minted
  PROVE  Place(x) \in Nat /\ (Place(x) = Place(y) => x = y)
<1>1. Len(Ids) \in Nat /\ DOMAIN Ids = 1..Len(Ids)
  BY IdAssumption, SequenceIs
<1>2. ASSUME NEW z \in {NoField} \cup Minted
      PROVE  \/ z = NoField /\ Place(z) = 0
             \/ Place(z) \in DOMAIN Ids /\ Ids[Place(z)] = z
  BY DEF Place, Minted
<1>3. \A z \in {NoField} \cup Minted :
        \/ z = NoField /\ Place(z) = 0
        \/ Place(z) \in DOMAIN Ids /\ Ids[Place(z)] = z
  BY <1>2
<1> QED BY <1>1, <1>3

LEMMA EarlierIs ==
  ASSUME NEW S, \A f \in S : IsFiring(f)
  PROVE  /\ \A f \in S : ~Earlier(f, f)
         /\ \A f, g, h \in S : Earlier(f, g) /\ Earlier(g, h) => Earlier(f, h)
         /\ \A f, g \in S : f = g \/ Earlier(f, g) \/ Earlier(g, f)
<1>1. DOMAIN Rules \subseteq Nat
  <2>1. IsSequence(Rules)
    BY DeclAssumption
  <2>2. Len(Rules) \in Nat /\ DOMAIN Rules = 1..Len(Rules)
    BY <2>1, SequenceIs
  <2> QED BY <2>2
<1>2. \A i \in DOMAIN Rules : Rules[i].steps \in Nat
  BY DeclAssumption
<1>3. \A f \in S : /\ f = <<f[1], f[2], f[3]>> /\ f[1] \in Nat /\ f[2] \in Nat
                   /\ f[3] \in {NoField} \cup Minted /\ Place(f[3]) \in Nat
  BY <1>1, <1>2, PlaceIs DEF IsFiring
<1>4. \A f, g \in S : Place(f[3]) = Place(g[3]) => f[3] = g[3]
  BY <1>3, PlaceIs
<1>5. \A f \in S : ~Earlier(f, f)
  BY <1>3 DEF Earlier
<1>6. \A f, g, h \in S : Earlier(f, g) /\ Earlier(g, h) => Earlier(f, h)
  <2> TAKE f, g, h \in S
  <2>1. /\ f[1] \in Nat /\ g[1] \in Nat /\ h[1] \in Nat
        /\ f[2] \in Nat /\ g[2] \in Nat /\ h[2] \in Nat
        /\ Place(f[3]) \in Nat /\ Place(g[3]) \in Nat /\ Place(h[3]) \in Nat
    BY <1>3
  <2> QED BY <2>1 DEF Earlier
<1>7. \A f, g \in S : f = g \/ Earlier(f, g) \/ Earlier(g, f)
  <2> TAKE f, g \in S
  <2>1. /\ f[1] \in Nat /\ g[1] \in Nat /\ f[2] \in Nat /\ g[2] \in Nat
        /\ Place(f[3]) \in Nat /\ Place(g[3]) \in Nat
        /\ (Place(f[3]) = Place(g[3]) => f[3] = g[3])
    BY <1>3, <1>4
  <2>2. f[1] = g[1] /\ f[2] = g[2] /\ f[3] = g[3] => f = g
    <3>1. f = <<f[1], f[2], f[3]>> /\ g = <<g[1], g[2], g[3]>>
      BY <1>3
    <3> QED BY <3>1
  <2> QED BY <2>1, <2>2 DEF Earlier
<1> QED BY <1>5, <1>6, <1>7

LEMMA ImageFinite ==
  ASSUME NEW D, IsFiniteSet(D), NEW g
  PROVE  IsFiniteSet({g[x] : x \in D})
<1> DEFINE R == {g[x] : x \in D}
           h == [x \in D |-> g[x]]
<1>1. h \in Surjection(D, R)
  BY DEF Surjection
<1> HIDE DEF h, R
<1>2. IsFiniteSet(R)
  BY <1>1, FS_Surjection
<1> QED BY <1>2 DEF R

LEMMA FiringsFinite == IsFiniteSet(Firings)
<1> DEFINE D == DOMAIN Rules
           step == [i \in D |-> 1..Rules[i].steps]
           U == UNION {step[i] : i \in D}
           P == (D \X U) \X ({NoField} \cup Minted)
           m == [f \in Firings |-> <<<<f[1], f[2]>>, f[3]>>]
<1>1. IsFiniteSet(D)
  <2>1. IsSequence(Rules)
    BY DeclAssumption
  <2>2. Len(Rules) \in Nat /\ DOMAIN Rules = 1..Len(Rules)
    BY <2>1, SequenceIs
  <2> QED BY <2>2, FS_Interval
<1>2. IsFiniteSet(U)
  <2>1. \A i \in D : IsFiniteSet(step[i])
    <3> TAKE i \in D
    <3>1. Rules[i].steps \in Nat
      BY DeclAssumption
    <3> QED BY <3>1, FS_Interval
  <2>2. IsFiniteSet({step[i] : i \in D})
    <3> HIDE DEF D, step
    <3> QED BY <1>1, ImageFinite
  <2> HIDE DEF step
  <2> QED BY <2>1, <2>2, FS_UNION
<1>3. IsFiniteSet({NoField} \cup Minted)
  <2>1. Len(Ids) \in Nat /\ DOMAIN Ids = 1..Len(Ids)
    BY IdAssumption, SequenceIs
  <2>2. IsFiniteSet(DOMAIN Ids)
    BY <2>1, FS_Interval
  <2>3. IsFiniteSet(Minted)
    BY <2>2, ImageFinite DEF Minted
  <2> QED BY <2>3, FS_Singleton, FS_Union
<1>4. IsFiniteSet(P)
  <2> HIDE DEF D, U
  <2> QED BY <1>1, <1>2, <1>3, FS_Product
<1>5. ASSUME NEW f \in Firings
      PROVE  m[f] \in P /\ f = <<f[1], f[2], f[3]>> /\ m[f] = <<<<f[1], f[2]>>, f[3]>>
  <2>1. IsFiring(f)
    BY FiringIs
  <2>2. f[1] \in D /\ f[2] \in U /\ f[3] \in {NoField} \cup Minted
    BY <2>1 DEF IsFiring
  <2> QED BY <2>1, <2>2 DEF IsFiring
<1>6. m \in [Firings -> P]
  <2>1. m = [f \in Firings |-> m[f]]
    OBVIOUS
  <2> HIDE DEF m, P
  <2> QED BY <1>5, <2>1
<1>7. \A f, g \in Firings : m[f] = m[g] => f = g
  <2> TAKE f, g \in Firings
  <2> HAVE m[f] = m[g]
  <2>1. f[1] = g[1] /\ f[2] = g[2] /\ f[3] = g[3]
    BY <1>5
  <2>2. f = <<f[1], f[2], f[3]>> /\ g = <<g[1], g[2], g[3]>>
    BY <1>5
  <2> QED BY <2>1, <2>2
<1>8. m \in Injection(Firings, P)
  <2> HIDE DEF m, P
  <2> QED BY <1>6, <1>7 DEF Injection, IsInjective
<1> HIDE DEF m, P
<1> QED BY <1>4, <1>8, FS_Injection

(* In order, every firing of a set comes once.                             *)
LEMMA InOrderIs ==
  ASSUME NEW S, IsFiniteSet(S), \A f \in S : IsFiring(f)
  PROVE  LET N == Cardinality(S)
             s == InOrder(S)
         IN  /\ N \in Nat /\ DOMAIN s = 1..N /\ s = [k \in 1..N |-> s[k]]
             /\ \A k \in 1..N : s[k] \in S
             /\ \A k, l \in 1..N : s[k] = s[l] => k = l
             /\ \A f \in S : \E k \in 1..N : s[k] = f
<1> DEFINE N == Cardinality(S)
           before(f) == {g \in S : Earlier(g, f)}
           rank(f) == Cardinality(before(f))
           s == InOrder(S)
           r == [f \in S |-> rank(f)]
<1>1. N \in Nat
  BY FS_CardinalityType
<1>2. ASSUME NEW f \in S
      PROVE  rank(f) \in 0..(N - 1) /\ IsFiniteSet(before(f))
  <2>1. before(f) \in SUBSET (S \ {f})
    BY EarlierIs
  <2>2. IsFiniteSet(S \ {f}) /\ Cardinality(S \ {f}) = N - 1
    BY FS_RemoveElement
  <2> HIDE DEF before
  <2>3. IsFiniteSet(before(f)) /\ rank(f) <= N - 1
    BY <2>1, <2>2, FS_Subset
  <2>4. rank(f) \in Nat
    BY <2>3, FS_CardinalityType
  <2> QED BY <1>1, <2>3, <2>4
<1>3. ASSUME NEW f \in S, NEW g \in S, Earlier(f, g)
      PROVE  rank(f) # rank(g)
  <2>1. f \notin before(f)
    BY EarlierIs
  <2>2. before(f) \cup {f} \in SUBSET before(g)
    <3>1. ASSUME NEW h \in before(f) PROVE h \in before(g)
      <4>1. h \in S /\ Earlier(h, f)
        OBVIOUS
      <4>2. Earlier(h, g)
        BY <1>3, <4>1, EarlierIs
      <4> QED BY <4>1, <4>2
    <3>2. f \in before(g)
      BY <1>3
    <3> HIDE DEF before
    <3> QED BY <3>1, <3>2
  <2>3. IsFiniteSet(before(f)) /\ rank(f) \in Nat /\ IsFiniteSet(before(g)) /\ rank(g) \in Nat
    BY <1>1, <1>2
  <2> HIDE DEF before
  <2>4. Cardinality(before(f) \cup {f}) = rank(f) + 1
    BY <2>1, <2>3, FS_AddElement
  <2>5. rank(f) + 1 <= rank(g)
    BY <2>2, <2>3, <2>4, FS_Subset
  <2> QED BY <2>3, <2>5
<1>4. \A f, g \in S : rank(f) = rank(g) => f = g
  <2> HIDE DEF rank
  <2> QED BY <1>3, EarlierIs
<1>5. r \in Injection(S, 0..(N - 1))
  <2>1. r \in [S -> 0..(N - 1)] /\ \A f \in S : r[f] = rank(f)
    <3> HIDE DEF rank
    <3> QED BY <1>2
  <2>2. \A f, g \in S : r[f] = r[g] => f = g
    <3> HIDE DEF rank, r
    <3> QED BY <1>4, <2>1
  <2> HIDE DEF r
  <2> QED BY <2>1, <2>2 DEF Injection, IsInjective
<1>6. IsFiniteSet(0..(N - 1)) /\ Cardinality(0..(N - 1)) = N
  <2> HIDE DEF N
  <2>1. 0 \in Int /\ N - 1 \in Int /\ (0 > N - 1 => N = 0) /\ (N - 1) - 0 + 1 = N
    BY <1>1
  <2> QED BY <1>1, <2>1, FS_Interval
<1>7. \A n \in 0..(N - 1) : \E f \in S : rank(f) = n
  <2>1. r \in Surjection(S, 0..(N - 1))
    <3> HIDE DEF r
    <3> QED BY <1>5, <1>6, FS_Injection
  <2>2. \A n \in 0..(N - 1) : \E f \in S : r[f] = n
    <3> HIDE DEF r
    <3> QED BY <2>1 DEF Surjection
  <2> QED BY <2>2
<1>8. s = [k \in 1..N |-> CHOOSE f \in S : rank(f) = k - 1]
  BY DEF InOrder
<1>9. \A k \in 1..N : s[k] \in S /\ rank(s[k]) = k - 1
  <2> TAKE k \in 1..N
  <2>1. k - 1 \in 0..(N - 1)
    BY <1>1
  <2>2. \E f \in S : rank(f) = k - 1
    BY <1>7, <2>1
  <2> HIDE DEF rank
  <2>3. s[k] = CHOOSE f \in S : rank(f) = k - 1
    BY <1>8
  <2> QED BY <2>2, <2>3
<1>10. \A k, l \in 1..N : s[k] = s[l] => k = l
  <2> TAKE k, l \in 1..N
  <2> HAVE s[k] = s[l]
  <2>1. rank(s[k]) = k - 1 /\ rank(s[l]) = l - 1
    BY <1>9
  <2>2. rank(s[k]) = rank(s[l])
    OBVIOUS
  <2> HIDE DEF rank, s
  <2> QED BY <2>1, <2>2
<1>11. \A f \in S : \E k \in 1..N : s[k] = f
  <2> TAKE f \in S
  <2>1. rank(f) \in 0..(N - 1)
    BY <1>2
  <2> HIDE DEF rank
  <2> DEFINE k == rank(f) + 1
  <2>2. k \in 1..N /\ k - 1 = rank(f)
    BY <1>1, <2>1
  <2> HIDE DEF k, s
  <2>3. s[k] \in S /\ rank(s[k]) = rank(f)
    BY <1>9, <2>2
  <2>4. s[k] = f
    BY <1>4, <2>3
  <2> QED BY <2>2, <2>4
<1>12. DOMAIN s = 1..N /\ s = [k \in 1..N |-> s[k]]
  BY <1>8
<1> HIDE DEF s, N
<1> QED BY <1>1, <1>9, <1>10, <1>11, <1>12 DEF s, N

-----------------------------------------------------------------------------
(* A heartbeat appends tasks and brings tasks into the pool.               *)
KeyOf(f) == Key(f[1], f[2], f[3])

LEMMA KeyIs ==
  ASSUME NEW f, NEW g
  PROVE  KeyOf(f) = KeyOf(g) => f[1] = g[1] /\ f[2] = g[2] /\ f[3] = g[3]
BY DEF KeyOf, Key

(* A key of a rule is never a caller's.                                    *)
LEMMA NoCallersKey ==
  ASSUME NEW key, NEW i \in DOMAIN Rules, NEW step \in 1..Rules[i].steps,
         NEW x \in {NoField} \cup Minted, NEW p \in 1..(MaxEvents + MaxDay),
         key = <<Rules[i].on, i, step, x, p>>
  PROVE  key \notin Keys \cup {NoKey}
<1>1. \E k \in 0..Len(Ids) : x = IF k = 0 THEN NoField ELSE Ids[k]
  <2>1. Len(Ids) \in Nat /\ DOMAIN Ids = 1..Len(Ids)
    BY IdAssumption, SequenceIs
  <2>2. CASE x = NoField
    <3>1. 0 \in 0..Len(Ids)
      BY <2>1
    <3> QED BY <2>2, <3>1
  <2>3. CASE x \in Minted
    <3>1. PICK k \in DOMAIN Ids : x = Ids[k]
      BY <2>3 DEF Minted
    <3>2. k \in 0..Len(Ids) /\ k # 0
      BY <2>1
    <3> QED BY <3>1, <3>2
  <2> QED BY <2>2, <2>3
<1> QED BY <1>1, IdAssumption

LEMMA TaskEventIs ==
  ASSUME NEW f, NEW lost
  PROVE  LET t == TaskEvent(f, lost)
         IN  /\ IsEvent(t) /\ t.kind = "task" /\ t.entity = Rules[f[1]].entity /\ t.id = f[3]
             /\ t.body = f /\ t.key = KeyOf(f) /\ t.day = day /\ t.lost = lost
<1> DEFINE b == Event("task", Rules[f[1]].entity, f[3], f, KeyOf(f))
           t == [b EXCEPT !.lost = lost]
<1>1. ASSUME NEW x, x = t
      PROVE  IsEvent(x)
  BY <1>1 DEF IsEvent, Event
<1>2. /\ t.kind = "task" /\ t.entity = Rules[f[1]].entity /\ t.id = f[3]
      /\ t.body = f /\ t.key = KeyOf(f) /\ t.day = day /\ t.lost = lost
  BY DEF Event
<1>3. TaskEvent(f, lost) = t
  BY DEF TaskEvent, KeyOf
<1> HIDE DEF t
<1> QED BY <1>1, <1>2, <1>3

(* The period of a firing is a day, or the event its record is stuck since.*)
LEMMA PeriodIs ==
  ASSUME CoreInv, NEW f, IsFiring(f)
  PROVE  /\ KeyOf(f) = <<Rules[f[1]].on, f[1], f[2], f[3], KeyOf(f)[5]>>
         /\ KeyOf(f)[5] \in 1..(MaxEvents + MaxDay)
         /\ Rules[f[1]].on = "schedule" => KeyOf(f)[5] = day
         /\ Rules[f[1]].on = "stuck" =>
              /\ KeyOf(f)[5] = db.since[f[3]] /\ f[3] \in DOMAIN db.since
              /\ ValueAt(db.records[f[3]].values, StateField[Rules[f[1]].entity]) = Text(Rules[f[1]].state)
              /\ f[3] \in Of(Rules[f[1]].entity, db.records)
              /\ db.since[f[3]] \in Heeded
<1> DEFINE on == Rules[f[1]].on
<1>1. on \in {"schedule", "stuck"} /\ day \in 1..MaxDay
  BY DEF IsFiring, CoreInv
<1>2. on = "schedule" => KeyOf(f)[5] = day
  BY DEF KeyOf, Key
<1>3. ASSUME on = "stuck"
      PROVE  /\ KeyOf(f)[5] = db.since[f[3]] /\ f[3] \in DOMAIN db.since
             /\ ValueAt(db.records[f[3]].values, StateField[Rules[f[1]].entity]) = Text(Rules[f[1]].state)
             /\ f[3] \in Of(Rules[f[1]].entity, db.records)
             /\ db.since[f[3]] \in Heeded
  <2>1. Rules[f[1]].entity # NoField
    BY <1>3, DeclAssumption DEF IsFiring
  <2>2. f[3] \in Of(Rules[f[1]].entity, db.records) /\ Overdue(Rules[f[1]], f[3])
    BY <1>3, <2>1 DEF IsFiring, Targets
  <2>3. db.since[f[3]] \in Heeded
    BY <2>2 DEF Overdue, CoreInv, Told, SinceTold
  <2>4. KeyOf(f)[5] = db.since[f[3]]
    BY <1>3 DEF KeyOf, Key
  <2> QED BY <2>2, <2>3, <2>4 DEF Overdue
<1>4. KeyOf(f) = <<on, f[1], f[2], f[3], KeyOf(f)[5]>>
  BY DEF KeyOf, Key
<1>5. Heeded \subseteq 1..MaxEvents /\ MaxEvents \in Nat /\ MaxDay \in Nat
  <2>1. Heeded \subseteq 1..Len(journal) /\ Len(journal) \in Nat /\ Len(journal) <= MaxEvents
    BY CoreFacts DEF CoreInv, JournalInv
  <2> QED BY <2>1, BoundAssumption
<1>6. KeyOf(f)[5] \in 1..(MaxEvents + MaxDay)
  <2>1. CASE on = "schedule"
    BY <1>1, <1>2, <1>5, <2>1
  <2>2. CASE on = "stuck"
    <3>1. KeyOf(f)[5] \in Heeded
      BY <1>3, <2>2
    <3>2. KeyOf(f)[5] \in 1..MaxEvents
      BY <1>5, <3>1
    <3> HIDE DEF on
    <3> QED BY <1>5, <3>2
  <2> QED BY <1>1, <2>1, <2>2
<1> QED BY <1>1, <1>2, <1>3, <1>4, <1>6

LEMMA TaskEventFits ==
  ASSUME CoreInv, NEW f, IsFiring(f), NEW lost \in BOOLEAN
  PROVE  EventFits(TaskEvent(f, lost)) /\ KeyOf(f) \notin Keys \cup {NoKey}
<1> DEFINE t == TaskEvent(f, lost)
<1>1. /\ IsEvent(t) /\ t.kind = "task" /\ t.entity = Rules[f[1]].entity /\ t.id = f[3]
      /\ t.body = f /\ t.key = KeyOf(f) /\ t.day = day /\ t.lost = lost
  BY TaskEventIs
<1>2. /\ KeyOf(f) = <<Rules[f[1]].on, f[1], f[2], f[3], KeyOf(f)[5]>>
      /\ KeyOf(f)[5] \in 1..(MaxEvents + MaxDay)
      /\ Rules[f[1]].on = "schedule" => KeyOf(f)[5] = day
  BY PeriodIs
<1>3. KeyOf(f) \notin Keys \cup {NoKey}
  BY <1>2, NoCallersKey DEF IsFiring
<1> HIDE DEF t
<1>4. TaskFits(t)
  BY <1>1, <1>2 DEF TaskFits, IsFiring
<1>5. EventFits(t)
  BY <1>1, <1>4 DEF EventFits, Kinds, CoreInv
<1> QED BY <1>3, <1>5 DEF t

(* What a heartbeat leaves: failed, the firings it got an error for, and H,*)
(* the events it brought into the pool.                                    *)
Beat(failed, H) ==
  /\ IsSequence(journal') /\ Len(journal') \in Len(journal)..MaxEvents
  /\ \A n \in DOMAIN journal : n \in DOMAIN journal' /\ journal'[n] = journal[n]
  /\ \A n \in DOMAIN journal' \ DOMAIN journal :
       /\ n > Len(journal) /\ journal'[n].body \in Firings
       /\ journal'[n] = TaskEvent(journal'[n].body, journal'[n].body \in failed)
       /\ ByIdemKey(journal, KeyOf(journal'[n].body)) = {}
  /\ \A m, n \in DOMAIN journal' \ DOMAIN journal : journal'[m].body = journal'[n].body => m = n
  /\ H \subseteq DOMAIN journal'
  /\ \A n \in H : journal'[n].kind = "task"
  /\ Heeded' = Heeded \cup H /\ behind' \subseteq Lost'
  /\ db' = [db EXCEPT !.tasks = @ \cup H]
  /\ ticked' \in BOOLEAN
  /\ ticked' => \A f \in Firings : \E n \in H : journal'[n].key = KeyOf(f)
  /\ UNCHANGED <<day, skew, rewritten>>

LEMMA AppendedIs ==
  ASSUME CoreInv, NEW failed, NEW how
  PROVE  LET new == Appended(Firings, failed, how)
             S == {f \in Firings : /\ ByIdemKey(journal, KeyOf(f)) = {}
                                   /\ f \in failed => how = "lost"}
         IN  /\ IsSequence(new) /\ Len(new) \in Nat
             /\ \A k \in 1..Len(new) :
                  /\ new[k].body \in S
                  /\ new[k] = TaskEvent(new[k].body, new[k].body \in failed)
             /\ \A k, l \in 1..Len(new) : new[k].body = new[l].body => k = l
             /\ \A f \in S : \E k \in 1..Len(new) : new[k].body = f
<1> DEFINE new == Appended(Firings, failed, how)
           S == {f \in Firings : /\ ByIdemKey(journal, KeyOf(f)) = {}
                                 /\ f \in failed => how = "lost"}
           s == InOrder(S)
           N == Cardinality(S)
<1>1. IsFiniteSet(S) /\ \A f \in S : IsFiring(f)
  <2>1. S \in SUBSET Firings
    OBVIOUS
  <2> HIDE DEF S
  <2> QED BY <2>1, FiringsFinite, FiringIs, FS_Subset
<1>2. new = [i \in DOMAIN s |-> TaskEvent(s[i], s[i] \in failed)]
  BY DEF Appended, KeyOf
<1> HIDE DEF S
<1>3. /\ N \in Nat /\ DOMAIN s = 1..N /\ s = [k \in 1..N |-> s[k]]
      /\ \A k \in 1..N : s[k] \in S
      /\ \A k, l \in 1..N : s[k] = s[l] => k = l
      /\ \A f \in S : \E k \in 1..N : s[k] = f
  BY <1>1, InOrderIs
<1> HIDE DEF s, N, new
<1>4. new = [i \in 1..N |-> TaskEvent(s[i], s[i] \in failed)]
  BY <1>2, <1>3
<1>5. DOMAIN new = 1..N /\ \A k \in 1..N : new[k] = TaskEvent(s[k], s[k] \in failed)
  BY <1>4
<1>6. \A k \in 1..N : new[k].body = s[k]
  BY <1>5, TaskEventIs
<1>7. IsSequence(new) /\ Len(new) = N
  <2>1. new \in [1..N -> {new[i] : i \in DOMAIN new}]
    <3>1. new = [i \in 1..N |-> new[i]]
      BY <1>4
    <3> QED BY <1>5, <3>1
  <2>2. new \in Seq({new[i] : i \in DOMAIN new})
    BY <1>3, <2>1, SeqDef
  <2>3. Len(new) \in Nat /\ DOMAIN new = 1..Len(new)
    BY <2>2, LenProperties
  <2>4. Len(new) = N
    BY <1>3, <1>5, <2>3
  <2> QED BY <2>2, <2>4 DEF IsSequence
<1>8. \A k \in 1..N : new[k].body \in S /\ new[k] = TaskEvent(new[k].body, new[k].body \in failed)
  BY <1>3, <1>5, <1>6
<1>9. \A k, l \in 1..N : new[k].body = new[l].body => k = l
  BY <1>3, <1>6
<1>10. \A f \in S : \E k \in 1..N : new[k].body = f
  <2> TAKE f \in S
  <2>1. PICK k \in 1..N : s[k] = f
    BY <1>3
  <2> QED BY <1>6, <2>1
<1> QED BY <1>3, <1>7, <1>8, <1>9, <1>10 DEF new, S

(* An event with the key of a firing is a task.                            *)
LEMMA KeyOfTask ==
  ASSUME CoreInv, NEW f, IsFiring(f), NEW e, EventFits(e), e.key = KeyOf(f)
  PROVE  e.kind = "task"
BY TaskEventFits DEF EventFits

LEMMA TickShape ==
  ASSUME CoreInv, Tick
  PROVE  \E failed, H : Beat(failed, H)
<1>1. PICK failed \in {{}} \cup {{f} : f \in Firings}, how \in {"lost", "refused"} :
        \E log \in {journal \o Appended(Firings, failed, how)} :
          LET heard == UNION {ByIdemKey(log, Key(f[1], f[2], f[3])) : f \in Firings \ failed}
              lost == {n \in DOMAIN log : log[n].lost}
          IN  /\ Len(log) <= MaxEvents /\ Cardinality(lost) <= MaxLost
              /\ journal' = log
              /\ db' = [db EXCEPT !.tasks = @ \cup heard]
              /\ behind' = (behind \cup (lost \ DOMAIN journal)) \ heard
              /\ ticked' = (failed = {})
              /\ UNCHANGED <<day, skew, rewritten>>
  <2>1. Fire(Firings)
    BY DEF Tick
  <2> QED BY <2>1 DEF Fire
<1> DEFINE new == Appended(Firings, failed, how)
           S == {f \in Firings : /\ ByIdemKey(journal, KeyOf(f)) = {}
                                 /\ f \in failed => how = "lost"}
           L == Len(journal)
           H == UNION {ByIdemKey(journal', KeyOf(f)) : f \in Firings \ failed}
           D == DOMAIN journal
           D2 == DOMAIN journal'
<1>2. /\ journal' = journal \o new /\ Len(journal') <= MaxEvents
      /\ db' = [db EXCEPT !.tasks = @ \cup H]
      /\ behind' = (behind \cup (Lost' \ D)) \ H
      /\ ticked' = (failed = {}) /\ UNCHANGED <<day, skew, rewritten>>
  BY <1>1 DEF KeyOf, Lost
<1>3. /\ L \in Nat /\ D = 1..L /\ IsSequence(journal) /\ behind \subseteq D /\ behind \subseteq Lost
      /\ \A n \in D : EventFits(journal[n])
  BY CoreFacts DEF CoreInv, JournalInv
<1>4. /\ IsSequence(new) /\ Len(new) \in Nat
      /\ \A k \in 1..Len(new) :
           new[k].body \in S /\ new[k] = TaskEvent(new[k].body, new[k].body \in failed)
      /\ \A k, l \in 1..Len(new) : new[k].body = new[l].body => k = l
      /\ \A f \in S : \E k \in 1..Len(new) : new[k].body = f
  BY AppendedIs
<1> HIDE DEF new, S, H
<1>5. /\ IsSequence(journal') /\ Len(journal') = L + Len(new)
      /\ \A n \in 1..L : journal'[n] = journal[n]
      /\ \A k \in 1..Len(new) : journal'[L + k] = new[k]
  BY <1>2, <1>3, <1>4, ConcatIs
<1>6. D2 = 1..(L + Len(new)) /\ Len(journal') \in L..MaxEvents
  <2>1. D2 = 1..Len(journal')
    BY <1>5, SequenceIs
  <2> HIDE DEF L
  <2> QED BY <1>2, <1>3, <1>4, <1>5, <2>1, BoundAssumption
<1>7. \A n \in D2 \ D : n > L /\ n - L \in 1..Len(new) /\ journal'[n] = new[n - L]
  <2> TAKE n \in D2 \ D
  <2> DEFINE k == n - L
  <2>1. n > L /\ k \in 1..Len(new) /\ L + k = n
    <3> HIDE DEF L
    <3> QED BY <1>3, <1>4, <1>6
  <2> HIDE DEF k, L
  <2>2. journal'[n] = new[k]
    BY <1>5, <2>1
  <2> QED BY <2>1, <2>2 DEF k
<1>8. \A n \in D : n \in D2 /\ journal'[n] = journal[n]
  BY <1>3, <1>4, <1>5, <1>6
<1>9. \A f \in S : f \in Firings /\ ByIdemKey(journal, KeyOf(f)) = {}
  BY DEF S
<1>10. \A n \in D2 \ D :
         /\ n > L /\ journal'[n].body \in Firings
         /\ journal'[n] = TaskEvent(journal'[n].body, journal'[n].body \in failed)
         /\ ByIdemKey(journal, KeyOf(journal'[n].body)) = {}
  BY <1>4, <1>7, <1>9
<1>11. \A m, n \in D2 \ D : journal'[m].body = journal'[n].body => m = n
  <2> TAKE m, n \in D2 \ D
  <2> HAVE journal'[m].body = journal'[n].body
  <2>1. m - L = n - L
    BY <1>4, <1>7
  <2> QED BY <1>3, <1>6, <2>1
<1>12. \A n \in D2 : EventFits(journal'[n])
  <2> TAKE n \in D2
  <2>1. CASE n \in D
    BY <1>3, <1>8, <2>1
  <2>2. CASE n \notin D
    <3> DEFINE f == journal'[n].body
               b == (f \in failed)
    <3>1. IsFiring(f) /\ journal'[n] = TaskEvent(f, b)
      BY <1>10, <2>2, FiringIs
    <3>2. b \in BOOLEAN
      OBVIOUS
    <3> HIDE DEF f, b
    <3>3. EventFits(TaskEvent(f, b))
      BY <3>1, <3>2, TaskEventFits
    <3> QED BY <3>1, <3>3
  <2> QED BY <2>1, <2>2
<1>13. H \subseteq D2 /\ \A n \in H : \E f \in Firings \ failed : journal'[n].key = KeyOf(f)
  BY DEF H, ByIdemKey
<1>14. \A n \in H : journal'[n].kind = "task"
  BY <1>12, <1>13, FiringIs, KeyOfTask
<1>15. \A n \in D2 \ D : journal'[n].key = KeyOf(journal'[n].body)
                          /\ journal'[n].lost = (journal'[n].body \in failed)
  BY <1>10, TaskEventIs
<1>16. ASSUME NEW n \in D2, NEW f \in Firings \ failed, journal'[n].key = KeyOf(f)
       PROVE  n \in H
  <2>1. KeyOf(f) # NoKey
    BY FiringIs, TaskEventFits
  <2>2. n \in ByIdemKey(journal', KeyOf(f))
    BY <1>16, <2>1 DEF ByIdemKey
  <2> QED BY <2>2 DEF H
<1>17. \A n \in D2 \ D : n \in H \/ n \in Lost'
  <2> TAKE n \in D2 \ D
  <2>1. CASE journal'[n].body \in failed
    BY <1>15, <2>1 DEF Lost
  <2>2. CASE journal'[n].body \notin failed
    BY <1>10, <1>15, <1>16, <2>2
  <2> QED BY <2>1, <2>2
<1>18. Heeded' = Heeded \cup H
  <2>1. Heeded' = D2 \ behind'
    BY DEF Heeded
  <2>2. Heeded = D \ behind
    BY DEF Heeded
  <2>3. D \subseteq D2
    BY <1>8
  <2>4. ASSUME NEW n \in Heeded' PROVE n \in Heeded \cup H
    <3>1. n \in D2 /\ n \notin behind'
      BY <2>1
    <3>2. n \in H \/ (n \notin behind /\ (n \in D \/ n \notin Lost'))
      BY <1>2, <3>1
    <3> QED BY <1>17, <2>2, <3>1, <3>2
  <2>5. ASSUME NEW n \in Heeded \cup H PROVE n \in Heeded'
    BY <1>2, <1>13, <2>1, <2>2, <2>3
  <2> QED BY <2>4, <2>5
<1>19. behind' \subseteq Lost'
  <2>1. \A n \in Lost : n \in Lost'
    BY <1>8 DEF Lost
  <2> QED BY <1>2, <1>3, <2>1
<1>20. ticked' => \A f \in Firings : \E n \in H : journal'[n].key = KeyOf(f)
  <2> SUFFICES ASSUME ticked', NEW f \in Firings
               PROVE  \E n \in H : journal'[n].key = KeyOf(f)
    OBVIOUS
  <2>1. f \in Firings \ failed
    BY <1>2
  <2>2. \E n \in D2 : journal'[n].key = KeyOf(f)
    <3>1. CASE ByIdemKey(journal, KeyOf(f)) = {}
      <4>1. f \in S
        BY <2>1, <3>1 DEF S
      <4>2. PICK k \in 1..Len(new) : new[k].body = f
        BY <1>4, <4>1
      <4>3. new[k].key = KeyOf(f)
        BY <1>4, <4>2, TaskEventIs
      <4>4. L + k \in D2 /\ journal'[L + k] = new[k]
        <5>1. L + k \in 1..(L + Len(new))
          BY <1>3, <1>4
        <5> QED BY <1>5, <1>6, <5>1
      <4> QED BY <4>3, <4>4
    <3>2. CASE ByIdemKey(journal, KeyOf(f)) # {}
      <4>1. PICK n \in D : journal[n].key = KeyOf(f)
        BY <3>2 DEF ByIdemKey
      <4> QED BY <1>8, <4>1
    <3> QED BY <3>1, <3>2
  <2> QED BY <1>16, <2>1, <2>2
<1>21. ticked' \in BOOLEAN
  BY <1>2
<1> HIDE DEF D, D2
<1>22. Beat(failed, H)
  BY <1>2, <1>5, <1>6, <1>8, <1>10, <1>11, <1>13, <1>14, <1>18, <1>19, <1>20, <1>21
     DEF Beat, D, D2
<1> QED BY <1>22

LEMMA BeatGrows ==
  ASSUME CoreInv, NEW failed, NEW H, Beat(failed, H)
  PROVE  /\ JournalInv'
         /\ \A n \in DOMAIN journal' \ DOMAIN journal :
              /\ IsFiring(journal'[n].body) /\ journal'[n].kind = "task"
              /\ journal'[n].key = KeyOf(journal'[n].body) /\ journal'[n].day = day
              /\ journal'[n].id = journal'[n].body[3]
<1> DEFINE L == Len(journal)
<1>1. /\ L \in Nat /\ DOMAIN journal = 1..L /\ IsSequence(journal') /\ JournalInv
      /\ Len(journal') \in L..MaxEvents /\ DOMAIN journal' = 1..Len(journal')
  BY CoreFacts, SequenceIs DEF Beat, CoreInv
<1>2. \A n \in 1..L : journal'[n] = journal[n]
  BY <1>1 DEF Beat
<1>3. \A n \in (L + 1)..Len(journal') : n \in DOMAIN journal' \ DOMAIN journal
  BY <1>1
<1>4. ASSUME NEW n \in DOMAIN journal' \ DOMAIN journal
      PROVE  /\ IsFiring(journal'[n].body) /\ journal'[n].kind = "task"
             /\ journal'[n].key = KeyOf(journal'[n].body) /\ journal'[n].day = day
             /\ journal'[n].id = journal'[n].body[3]
             /\ EventFits(journal'[n]) /\ journal'[n].key # NoKey
             /\ \A m \in 1..L : journal[m].key # journal'[n].key
  <2> DEFINE f == journal'[n].body
             b == (f \in failed)
  <2>1. IsFiring(f) /\ journal'[n] = TaskEvent(f, b) /\ ByIdemKey(journal, KeyOf(f)) = {}
    BY FiringIs DEF Beat
  <2>2. b \in BOOLEAN
    OBVIOUS
  <2> HIDE DEF b
  <2>3. EventFits(TaskEvent(f, b)) /\ KeyOf(f) # NoKey
    BY <2>1, <2>2, TaskEventFits
  <2>4. journal'[n].kind = "task" /\ journal'[n].key = KeyOf(f) /\ journal'[n].day = day /\ journal'[n].id = f[3]
    <3> HIDE DEF f
    <3> QED BY <2>1, TaskEventIs
  <2>5. \A m \in 1..L : journal[m].key # KeyOf(f)
    BY <1>1, <2>1, <2>3 DEF ByIdemKey
  <2> QED BY <2>1, <2>3, <2>4, <2>5
<1>5. \A m, n \in (L + 1)..Len(journal') : journal'[m].key = journal'[n].key => m = n
  <2> TAKE m, n \in (L + 1)..Len(journal')
  <2> HAVE journal'[m].key = journal'[n].key
  <2>1. KeyOf(journal'[m].body) = KeyOf(journal'[n].body)
    BY <1>3, <1>4
  <2>2. IsFiring(journal'[m].body) /\ IsFiring(journal'[n].body)
    BY <1>3, <1>4
  <2>3. journal'[m].body = journal'[n].body
    BY <2>1, <2>2, KeyIs DEF IsFiring
  <2> QED BY <1>3, <2>3 DEF Beat
<1>6. \A n \in (L + 1)..Len(journal') :
        /\ EventFits(journal'[n]) /\ journal'[n].kind # "created"
        /\ \A m \in 1..L : journal[m].key # journal'[n].key
  BY <1>3, <1>4
<1>7. JournalInv'
  BY <1>1, <1>2, <1>5, <1>6, JournalGrows
<1> QED BY <1>4, <1>7

(* Tasks told more: nothing else is.                                       *)
LEMMA TasksKeep ==
  ASSUME NEW j, NEW T, NEW d, Told(j, T, d), NEW H, \A n \in H : j[n].kind = "task"
  PROVE  Told(j, T \cup H, [d EXCEPT !.tasks = @ \cup H])
<1> DEFINE g == [records |-> d.records, since |-> d.since, links |-> d.links,
                 comments |-> d.comments, tasks |-> d.tasks]
           U == T \cup H
<1>1. ASSUME NEW p, p = [g EXCEPT !.tasks = @ \cup H]
      PROVE  /\ IsProjection(p) /\ p.records = d.records /\ p.since = d.since
             /\ p.links = d.links /\ p.comments = d.comments /\ p.tasks = d.tasks \cup H
  BY <1>1 DEF IsProjection
<1>2. d = g
  BY DEF Told, IsProjection
<1> HIDE DEF g
<1>3. PICK p : /\ p = [d EXCEPT !.tasks = @ \cup H]
               /\ IsProjection(p) /\ p.records = d.records /\ p.since = d.since
               /\ p.links = d.links /\ p.comments = d.comments /\ p.tasks = d.tasks \cup H
  BY <1>1, <1>2
<1>4. Born(j, U) = Born(j, T)
  BY DEF Born
<1>5. RecordsTold(j, U, p)
  BY <1>3, <1>4 DEF Told, RecordsTold
<1>6. SinceTold(j, U, p)
  BY <1>3 DEF Told, SinceTold
<1>7. LinksTold(j, U, p)
  <2>1. \A n \in U : j[n].kind \in {"linked", "unlinked"} => n \in T
    OBVIOUS
  <2> HIDE DEF U
  <2>2. T \subseteq U
    BY DEF U
  <2> QED BY <1>3, <2>1, <2>2 DEF Told, LinksTold
<1>8. CommentsTold(j, U, p)
  <2>1. \A n \in U : j[n].kind = "comment" => n \in T
    OBVIOUS
  <2> HIDE DEF U
  <2>2. T \subseteq U
    BY DEF U
  <2> QED BY <1>3, <2>1, <2>2 DEF Told, CommentsTold
<1>9. TasksTold(j, U, p)
  BY <1>3 DEF Told, TasksTold
<1> QED BY <1>3, <1>5, <1>6, <1>7, <1>8, <1>9 DEF Told

LEMMA ValuesBeat ==
  ASSUME NEW j, NEW T, NEW x, NEW d, AsTold(j, T, d, x), NEW H, \A n \in H : j[n].kind = "task",
         NEW p, p.records = d.records, p.since = d.since
  PROVE  AsTold(j, T \cup H, p, x)
<1> DEFINE v == p.records[x].values
<1>1. \A n \in H : DOMAIN Wrote(j[n]) = {} /\ ~Enters(j[n], x)
  BY DEF Wrote, Enters
<1>2. ValuesTold(j, T, x, v) /\ SinceLast(j, T, p, x)
  BY DEF AsTold, SinceLast
<1> HIDE DEF v
<1>3. \A n \in T \cup H : j[n].id = x => DOMAIN Wrote(j[n]) \subseteq DOMAIN v
  BY <1>1, <1>2 DEF ValuesTold
<1>4. ASSUME NEW f \in DOMAIN v
      PROVE  \E n \in T \cup H :
               /\ j[n].id = x /\ f \in DOMAIN Wrote(j[n]) /\ v[f] = Wrote(j[n])[f]
               /\ \A m \in T \cup H : j[m].id = x /\ f \in DOMAIN Wrote(j[m]) => m <= n
  <2>1. PICK n \in T : /\ j[n].id = x /\ f \in DOMAIN Wrote(j[n]) /\ v[f] = Wrote(j[n])[f]
                       /\ \A m \in T : j[m].id = x /\ f \in DOMAIN Wrote(j[m]) => m <= n
    BY <1>2 DEF ValuesTold
  <2>2. \A m \in T \cup H : j[m].id = x /\ f \in DOMAIN Wrote(j[m]) => m <= n
    BY <1>1, <2>1
  <2> QED BY <2>1, <2>2
<1>5. ValuesTold(j, T \cup H, x, v)
  BY <1>3, <1>4 DEF ValuesTold
<1>6. SinceLast(j, T \cup H, p, x)
  BY <1>1, <1>2 DEF SinceLast
<1> QED BY <1>5, <1>6 DEF AsTold, v


LEMMA BeatKeepsCore ==
  ASSUME CoreInv, NEW failed, NEW H, Beat(failed, H)
  PROVE  CoreInv'
<1> DEFINE T == Heeded
<1>1. /\ T \in SUBSET Nat /\ T \subseteq DOMAIN journal
      /\ \A m \in T : journal'[m] = journal[m] /\ m \in DOMAIN journal'
      /\ Heeded' = T \cup H /\ JournalInv'
      /\ db' = [db EXCEPT !.tasks = @ \cup H]
      /\ \A n \in H : journal'[n].kind = "task"
  BY CoreFacts, BeatGrows DEF Beat
<1>2. Known(journal', T \cup H)
  <2> SUFFICES ASSUME NEW n \in DOMAIN journal', journal'[n].kind \in {"updated", "moved"}
               PROVE  \E b \in Born(journal', T \cup H) :
                        b < n /\ journal'[b].id = journal'[n].id /\ journal'[b].entity = journal'[n].entity
    BY DEF Known
  <2>1. n \in DOMAIN journal /\ journal'[n] = journal[n]
    <3>1. n \in DOMAIN journal
      BY BeatGrows
    <3> QED BY <3>1 DEF Beat
  <2>2. PICK b \in Born(journal, T) :
          b < n /\ journal[b].id = journal[n].id /\ journal[b].entity = journal[n].entity
    BY <2>1 DEF CoreInv, Known
  <2>3. b \in Born(journal', T \cup H) /\ journal'[b] = journal[b]
    BY <1>1, <2>2 DEF Born
  <2> QED BY <2>1, <2>2, <2>3
<1>3. Told(journal', T \cup H, db')
  <2>1. Told(journal', T, db)
    BY <1>1, ToldOn DEF CoreInv
  <2> HIDE DEF T
  <2> QED BY <1>1, <2>1, TasksKeep
<1>4. db'.records = db.records /\ db'.since = db.since
  <2>1. ASSUME NEW p, p = [[records |-> db.records, since |-> db.since, links |-> db.links,
                            comments |-> db.comments, tasks |-> db.tasks] EXCEPT !.tasks = @ \cup H]
        PROVE  p.records = db.records /\ p.since = db.since
    BY <2>1
  <2> QED BY <1>1, <2>1 DEF CoreInv, Told, IsProjection
<1>5. ValuesInv'
  <2> SUFFICES ASSUME NEW b \in Born(journal', T \cup H), journal'[b].id \notin skew'
               PROVE  AsTold(journal', T \cup H, db', journal'[b].id)
    BY <1>1 DEF ValuesInv
  <2>1. b \in Born(journal, T) /\ journal'[b] = journal[b] /\ skew' = skew
    BY <1>1 DEF Born, Beat
  <2>2. AsTold(journal, T, db, journal[b].id)
    BY <2>1 DEF CoreInv, ValuesInv
  <2>3. AsTold(journal', T, db, journal[b].id)
    BY <1>1, <2>2, ValuesOn
  <2> HIDE DEF T
  <2>4. AsTold(journal', T \cup H, db', journal[b].id)
    BY <1>1, <1>4, <2>3, ValuesBeat
  <2> QED BY <2>1, <2>4
<1>6. /\ behind' \subseteq Lost' /\ ticked' \in BOOLEAN
      /\ day' = day /\ skew' = skew /\ rewritten' = rewritten
  BY DEF Beat
<1> QED BY <1>1, <1>2, <1>3, <1>5, <1>6 DEF CoreInv

-----------------------------------------------------------------------------
(* What each handler appends has its form.                                 *)
Called(e) == NewFits(e) /\ Len(journal) < MaxEvents /\ (HeardStep(e) \/ LostStep(e))

LEMMA FreshIdIs ==
  ASSUME CoreInv, Count("created") < Len(Ids)
  PROVE  /\ FreshId \in Minted
         /\ \A n \in DOMAIN journal : journal[n].kind = "created" => journal[n].id # FreshId
<1> DEFINE c == Count("created")
<1>1. c \in Nat /\ c + 1 \in DOMAIN Ids /\ \A k \in 1..c : k \in DOMAIN Ids /\ k # c + 1
  <2>1. Len(Ids) \in Nat /\ DOMAIN Ids = 1..Len(Ids)
    BY IdAssumption, SequenceIs
  <2>2. c \in 0..Len(Ids)
    BY DEF CoreInv, JournalInv
  <2> HIDE DEF c
  <2> QED BY <2>1, <2>2 DEF c
<1>2. FreshId = Ids[c + 1]
  BY DEF FreshId
<1> HIDE DEF c
<1>3. \A n \in DOMAIN journal : journal[n].kind = "created" => \E k \in 1..c : journal[n].id = Ids[k]
  BY DEF CoreInv, JournalInv, c
<1> QED BY <1>1, <1>2, <1>3, IdAssumption DEF Minted

LEMMA CreateCalls ==
  ASSUME CoreInv, NEW e \in Entity, NEW given, NEW key \in Keys \cup {NoKey}, Create(e, given, key)
  PROVE  Called(Event("created", e, FreshId, Body(Prepared(e, given), given), key))
<1> DEFINE b == Body(Prepared(e, given), given)
           v == Event("created", e, FreshId, b, key)
<1>1. /\ IsEvent(v) /\ v.kind = "created" /\ v.entity = e /\ v.id = FreshId /\ v.body = b
      /\ v.key = key /\ v.day = day /\ v.lost = FALSE
  BY DEF Event, IsEvent
<1>2. b = [values |-> b.values, given |-> b.given, imported |-> b.imported] /\ IsMap(b.values)
  BY PreparedIs DEF Body
<1>3. /\ Len(journal) < MaxEvents /\ ByIdemKey(journal, key) = {} /\ Count("created") < Len(Ids)
      /\ HeardStep(v) \/ LostStep(v)
  BY AppendsEither DEF Create, Room
<1> HIDE DEF v, b
<1>4. EventFits(v)
  BY <1>1, <1>2, <1>3, FreshIdIs DEF EventFits, Kinds, CoreInv
<1>5. NewFits(v)
  BY <1>1, <1>3, <1>4 DEF NewFits
<1> QED BY <1>3, <1>5 DEF Called, v, b

(* The records of an old era are stored as they are.                       *)
ImportEvent(e, values) ==
  Event("created", e, FreshId, [Body(values, values) EXCEPT !.imported = TRUE], NoKey)

LEMMA ImportCalls ==
  ASSUME CoreInv, NEW e \in Entity, NEW values \in Imports[e], ImportRecord(e, values)
  PROVE  Called(ImportEvent(e, values)) /\ HeardStep(ImportEvent(e, values))
<1> DEFINE b == [Body(values, values) EXCEPT !.imported = TRUE]
           v == ImportEvent(e, values)
<1>1. /\ IsEvent(v) /\ v.kind = "created" /\ v.entity = e /\ v.id = FreshId /\ v.body = b
      /\ v.key = NoKey /\ v.day = day /\ v.lost = FALSE
  BY DEF ImportEvent, Event, IsEvent
<1>2. b = [values |-> b.values, given |-> b.given, imported |-> b.imported] /\ b.values = values
  <2>1. ASSUME NEW p,
               p = [[values |-> values, given |-> DOMAIN values, imported |-> FALSE]
                      EXCEPT !.imported = TRUE]
        PROVE  /\ p = [values |-> p.values, given |-> p.given, imported |-> p.imported]
               /\ p.values = values
    BY <2>1
  <2> QED BY <2>1 DEF Body
<1>3. IsMap(values)
  BY DeclAssumption DEF IsMap
<1>4. /\ Len(journal) < MaxEvents /\ Count("created") < Len(Ids)
      /\ journal' = Append(journal, v) /\ db' = Apply(db, Len(journal) + 1, v)
      /\ ticked' = FALSE /\ UNCHANGED <<behind, day, skew, rewritten>>
  BY DEF ImportRecord, ImportEvent, Room
<1> HIDE DEF v, b
<1>5. HeardStep(v)
  BY <1>1, <1>4 DEF HeardStep, Project
<1>6. EventFits(v)
  BY <1>1, <1>2, <1>3, <1>4, FreshIdIs DEF EventFits, Kinds, CoreInv
<1>7. NewFits(v)
  BY <1>1, <1>4, <1>6 DEF NewFits
<1> QED BY <1>4, <1>5, <1>7 DEF Called, v

LEMMA UpdateCalls ==
  ASSUME CoreInv, NEW e \in Entity, NEW id, NEW values, NEW key \in Keys \cup {NoKey},
         Update(e, id, values, key)
  PROVE  Called(Event("updated", e, id, Changed(id, values), key))
<1> DEFINE b == Changed(id, values)
           v == Event("updated", e, id, b, key)
<1>1. /\ IsEvent(v) /\ v.kind = "updated" /\ v.entity = e /\ v.id = id /\ v.body = b
      /\ v.key = key /\ v.day = day /\ v.lost = FALSE
  BY DEF Event, IsEvent
<1>2. IsMap(b) /\ DOMAIN b \subseteq DOMAIN values
  BY DEF IsMap, Changed, Differing
<1>3. /\ Len(journal) < MaxEvents /\ Exists(e, id) /\ StateField[e] \notin DOMAIN values
      /\ ByIdemKey(journal, key) = {}
      /\ HeardStep(v) \/ LostStep(v)
  BY AppendsEither DEF Update, MayUpdate, Room
<1> HIDE DEF v, b
<1>4. EventFits(v)
  BY <1>1, <1>2, <1>3 DEF EventFits, Kinds, CoreInv
<1>5. NewFits(v)
  BY <1>1, <1>3, <1>4 DEF NewFits, Exists
<1> QED BY <1>3, <1>5 DEF Called, v, b


LEMMA MoveCalls ==
  ASSUME CoreInv, NEW e \in Entity, NEW id, NEW to, NEW key \in Keys \cup {NoKey},
         Move(e, id, to, key)
  PROVE  Called(Event("moved", e, id, Text(to), key))
<1> DEFINE v == Event("moved", e, id, Text(to), key)
<1>1. /\ IsEvent(v) /\ v.kind = "moved" /\ v.entity = e /\ v.id = id
      /\ v.key = key /\ v.day = day /\ v.lost = FALSE
  BY DEF Event, IsEvent
<1>2. /\ Len(journal) < MaxEvents /\ Exists(e, id) /\ ByIdemKey(journal, key) = {}
      /\ HeardStep(v) \/ LostStep(v)
  BY AppendsEither DEF Move, MayMove, Room
<1> HIDE DEF v
<1>3. EventFits(v)
  BY <1>1 DEF EventFits, Kinds, CoreInv
<1>4. NewFits(v)
  BY <1>1, <1>2, <1>3 DEF NewFits, Exists
<1> QED BY <1>2, <1>4 DEF Called, v


LEMMA CommentCalls ==
  ASSUME CoreInv, NEW e \in Entity, NEW id, NEW internal, Comment(e, id, internal)
  PROVE  Called(Event("comment", e, id, internal, NoKey))
<1> DEFINE v == Event("comment", e, id, internal, NoKey)
<1>1. /\ IsEvent(v) /\ v.kind = "comment" /\ v.entity = e /\ v.id = id
      /\ v.key = NoKey /\ v.day = day /\ v.lost = FALSE
  BY DEF Event, IsEvent
<1>2. Len(journal) < MaxEvents /\ (HeardStep(v) \/ LostStep(v))
  BY AppendsEither DEF Comment, Room
<1> HIDE DEF v
<1>3. EventFits(v)
  BY <1>1 DEF EventFits, Kinds, CoreInv
<1>4. NewFits(v)
  BY <1>1, <1>3 DEF NewFits
<1> QED BY <1>2, <1>4 DEF Called, v

(* What a link, or the removal of one, is asked for.                       *)
Asks(e, id, name, other, kind, r) ==
  /\ kind \in {"linked", "unlinked"} /\ r \in Named(e, name)
  /\ kind = "linked" =>
       Exists(r.decl.from, Fact(r, id, other).from) /\ Exists(r.decl.to, Fact(r, id, other).to)
  /\ kind = "unlinked" => Fact(r, id, other) \in db.links
  /\ Called(Event(kind, e, id, Asked(r, id, name, other), NoKey))

LEMMA LinkCalls ==
  ASSUME CoreInv, NEW e \in Entity, NEW id, NEW name, NEW other,
         Link(e, id, name, other) \/ Unlink(e, id, name, other)
  PROVE  \E kind, r : Asks(e, id, name, other, kind, r)
<1>1. PICK kind \in {"linked", "unlinked"}, r \in Named(e, name) :
        /\ Len(journal) < MaxEvents
        /\ kind = "linked" =>
             Exists(r.decl.from, Fact(r, id, other).from) /\ Exists(r.decl.to, Fact(r, id, other).to)
        /\ kind = "unlinked" => Fact(r, id, other) \in db.links
        /\ Appends(Event(kind, e, id, Asked(r, id, name, other), NoKey))
  BY DEF Link, Unlink, Room
<1> DEFINE v == Event(kind, e, id, Asked(r, id, name, other), NoKey)
<1>2. /\ IsEvent(v) /\ v.kind = kind /\ v.entity = e /\ v.id = id
      /\ v.body = Asked(r, id, name, other)
      /\ v.key = NoKey /\ v.day = day /\ v.lost = FALSE
  BY DEF Event, IsEvent
<1>3. HeardStep(v) \/ LostStep(v)
  BY <1>1, AppendsEither
<1> HIDE DEF v
<1>4. v.body.name = name /\ v.body.other = other
  BY <1>2 DEF Asked
<1>5. EventFits(v)
  BY <1>1, <1>2, <1>4 DEF EventFits, Kinds, CoreInv
<1>6. NewFits(v)
  BY <1>1, <1>2, <1>5 DEF NewFits
<1>7. Called(v)
  BY <1>1, <1>3, <1>6 DEF Called
<1>8. Asks(e, id, name, other, kind, r)
  BY <1>1, <1>7 DEF Asks, v
<1> QED BY <1>8

-----------------------------------------------------------------------------
LEMMA CoreInit == Init => CoreInv
<1> SUFFICES ASSUME Init PROVE CoreInv
  OBVIOUS
<1>1. /\ journal = <<>> /\ db = Nothing /\ day = 1 /\ behind = {}
      /\ skew = {} /\ rewritten = {} /\ ticked = FALSE
  BY DEF Init
<1>2. IsSequence(journal) /\ Len(journal) = 0 /\ DOMAIN journal = {}
  <2>1. journal \in Seq({}) /\ Len(journal) = 0
    BY <1>1
  <2>2. IsSequence(journal)
    BY <2>1, IsSequenceOf
  <2> QED BY <2>1, <2>2, SequenceIs
<1>3. Len(Ids) \in Nat
  BY IdAssumption, SequenceIs
<1>4. Count("created") = 0
  <2>1. {n \in DOMAIN journal : journal[n].kind = "created"} = {}
    BY <1>2
  <2> QED BY <2>1, FS_EmptySet DEF Count
<1>5. JournalInv
  BY <1>2, <1>3, <1>4, BoundAssumption DEF JournalInv, BornOnce, KeysOnce
<1>6. Heeded = {} /\ Told(journal, Heeded, db)
  BY <1>1, <1>2, NothingTold DEF Heeded
<1>7. ValuesInv
  BY <1>6 DEF ValuesInv, Born
<1>8. day \in 1..MaxDay
  BY <1>1, BoundAssumption
<1>9. Known(journal, Heeded)
  BY <1>2 DEF Known
<1>10. skew \subseteq rewritten /\ ticked \in BOOLEAN /\ behind \subseteq Lost
  BY <1>1
<1> QED BY <1>5, <1>6, <1>7, <1>8, <1>9, <1>10 DEF CoreInv

LEMMA CalledKeepsCore ==
  ASSUME CoreInv, NEW e, Called(e)
  PROVE  CoreInv'
BY HeardKeepsCore, LostKeepsCore DEF Called

(* The steps, as what they do.                                             *)
LEMMA CoreStep ==
  ASSUME CoreInv, [Next]_vars
  PROVE  \/ UNCHANGED vars
         \/ \E e \in Entity : \E given \in Given[e], key \in Keys \cup {NoKey} : Create(e, given, key)
         \/ \E n \in behind : \E b : Again(n, b)
         \/ \E e \in Entity : \E values \in Imports[e] : ImportRecord(e, values)
         \/ \E e \in Entity, id \in Minted : \E values \in Changes[e], key \in Keys \cup {NoKey} :
              Update(e, id, values, key)
         \/ \E e \in Entity, id \in Minted : \E to \in StatesOf(e), key \in Keys \cup {NoKey} :
              Move(e, id, to, key)
         \/ \E n, b : Rewrites(n, b)
         \/ \E e \in Entity, id \in Minted, name \in LinkNames, other \in Minted :
              \E kind, r : Asks(e, id, name, other, kind, r)
         \/ \E e \in Entity, id \in Minted, internal \in BOOLEAN : Comment(e, id, internal)
         \/ \E failed, H : Beat(failed, H)
         \/ NextDay \/ Restart
<1> DEFINE Goal ==
             \/ UNCHANGED vars
             \/ \E e \in Entity : \E given \in Given[e], key \in Keys \cup {NoKey} : Create(e, given, key)
             \/ \E n \in behind : \E b : Again(n, b)
             \/ \E e \in Entity : \E values \in Imports[e] : ImportRecord(e, values)
             \/ \E e \in Entity, id \in Minted : \E values \in Changes[e], key \in Keys \cup {NoKey} :
                  Update(e, id, values, key)
             \/ \E e \in Entity, id \in Minted : \E to \in StatesOf(e), key \in Keys \cup {NoKey} :
                  Move(e, id, to, key)
             \/ \E n, b : Rewrites(n, b)
             \/ \E e \in Entity, id \in Minted, name \in LinkNames, other \in Minted :
                  \E kind, r : Asks(e, id, name, other, kind, r)
             \/ \E e \in Entity, id \in Minted, internal \in BOOLEAN : Comment(e, id, internal)
             \/ \E failed, H : Beat(failed, H)
             \/ NextDay \/ Restart
<1>1. ASSUME NEW e \in Entity, NEW given \in Given[e], NEW key \in Keys \cup {NoKey},
             Create(e, given, key) \/ CreateAgain(e, given, key)
      PROVE  Goal
  <2>1. CASE Create(e, given, key)
    BY <2>1
  <2>2. CASE CreateAgain(e, given, key)
    BY <2>2, AgainShape
  <2> QED BY <1>1, <2>1, <2>2
<1>2. ASSUME NEW e \in Entity, NEW id \in Minted, NEW values \in Changes[e],
             NEW key \in Keys \cup {NoKey},
             Update(e, id, values, key) \/ UpdateAgain(e, id, values, key)
      PROVE  Goal
  <2>1. CASE Update(e, id, values, key)
    BY <2>1
  <2>2. CASE UpdateAgain(e, id, values, key)
    <3>1. \E n, b : Rewrites(n, b)
      BY <2>2, UpdateAgainShape
    <3> QED BY <3>1
  <2> QED BY <1>2, <2>1, <2>2
<1>3. ASSUME NEW e \in Entity, NEW id \in Minted, NEW to \in StatesOf(e),
             NEW key \in Keys \cup {NoKey},
             Move(e, id, to, key) \/ MoveAgain(e, id, to, key)
      PROVE  Goal
  <2>1. CASE Move(e, id, to, key)
    BY <2>1
  <2>2. CASE MoveAgain(e, id, to, key)
    <3>1. \E n, b : Rewrites(n, b)
      BY <2>2, MoveAgainShape
    <3> QED BY <3>1
  <2> QED BY <1>3, <2>1, <2>2
<1>4. ASSUME NEW e \in Entity, NEW id \in Minted, NEW name \in LinkNames, NEW other \in Minted,
             Link(e, id, name, other) \/ Unlink(e, id, name, other)
      PROVE  Goal
  <2>1. \E kind, r : Asks(e, id, name, other, kind, r)
    BY <1>4, LinkCalls
  <2> QED BY <2>1
<1>5. ASSUME NEW e \in Entity, NEW id \in Minted, NEW internal \in BOOLEAN, Comment(e, id, internal)
      PROVE  Goal
  BY <1>5
<1>6. Tick => Goal
  BY TickShape
<1>7. NextDay \/ Restart \/ UNCHANGED vars => Goal
  OBVIOUS
<1>10. ASSUME NEW e \in Entity, NEW values \in Imports[e], ImportRecord(e, values)
       PROVE  Goal
  BY <1>10
<1> HIDE DEF Goal
<1>8. ASSUME NEW e \in Entity, NEW id \in Minted,
             \/ \E values \in Changes[e], key \in Keys \cup {NoKey} :
                  Update(e, id, values, key) \/ UpdateAgain(e, id, values, key)
             \/ \E to \in StatesOf(e), key \in Keys \cup {NoKey} :
                  Move(e, id, to, key) \/ MoveAgain(e, id, to, key)
             \/ \E name \in LinkNames, other \in Minted :
                  Link(e, id, name, other) \/ Unlink(e, id, name, other)
             \/ \E internal \in BOOLEAN : Comment(e, id, internal)
      PROVE  Goal
  BY <1>2, <1>3, <1>4, <1>5, <1>8
<1>9. Goal
  BY <1>1, <1>6, <1>7, <1>8, <1>10 DEF Next
<1> QED BY <1>9 DEF Goal


LEMMA CoreKept ==
  ASSUME CoreInv, [Next]_vars
  PROVE  CoreInv'
<1>1. CASE UNCHANGED vars
  <2>1. \A kind : Count(kind)' = Count(kind)
    BY <1>1 DEF Count, vars
  <2> QED BY <1>1, <2>1 DEF vars, CoreInv, JournalInv, ValuesInv, Heeded, Lost
<1>2. ASSUME NEW e \in Entity, NEW given, NEW key \in Keys \cup {NoKey}, Create(e, given, key)
      PROVE  CoreInv'
  BY <1>2, CreateCalls, CalledKeepsCore
<1>3. ASSUME NEW n \in behind, NEW v, Again(n, v)
      PROVE  CoreInv'
  BY <1>3, AgainKeepsCore
<1>9. ASSUME NEW e \in Entity, NEW values \in Imports[e], ImportRecord(e, values)
      PROVE  CoreInv'
  BY <1>9, ImportCalls, CalledKeepsCore
<1>10. ASSUME NEW n, NEW b, Rewrites(n, b)
       PROVE  CoreInv'
  BY <1>10, RewriteKeepsCore
<1>4. ASSUME NEW e \in Entity, NEW id, NEW values, NEW key \in Keys \cup {NoKey},
             Update(e, id, values, key)
      PROVE  CoreInv'
  BY <1>4, UpdateCalls, CalledKeepsCore
<1>5. ASSUME NEW e \in Entity, NEW id, NEW to, NEW key \in Keys \cup {NoKey}, Move(e, id, to, key)
      PROVE  CoreInv'
  BY <1>5, MoveCalls, CalledKeepsCore
<1>6. ASSUME NEW e, NEW id, NEW name, NEW other, NEW kind, NEW r, Asks(e, id, name, other, kind, r)
      PROVE  CoreInv'
  BY <1>6, CalledKeepsCore DEF Asks
<1>7. ASSUME NEW e \in Entity, NEW id, NEW internal, Comment(e, id, internal)
      PROVE  CoreInv'
  BY <1>7, CommentCalls, CalledKeepsCore
<1>8. ASSUME NEW failed, NEW H, Beat(failed, H)
      PROVE  CoreInv'
  BY <1>8, BeatKeepsCore
<1> QED BY <1>1, <1>2, <1>3, <1>4, <1>5, <1>6, <1>7, <1>8, <1>9, <1>10,
   CoreStep, NextDayKeepsCore, RestartKeepsCore

(* The projection holds what the events it was told of say, and events     *)
(* have the form and the order that the replay relies on (records.go,      *)
(* links.go, comments.go, automation.go: checked, appended, projected).    *)
THEOREM Projection == Spec => []CoreInv
BY CoreInit, CoreKept, PTL DEF Spec

(* A restart folds the same records, links and threads from the journal as *)
(* the handlers projected (engine.go, New, applyEvent).                    *)
LEMMA CoreRestores == CoreInv => ReplayRestores
<1> SUFFICES ASSUME CoreInv
             PROVE  ReplayRestores
  OBVIOUS
<1> DEFINE fold == Replay(journal, behind)
           T == Heeded
<1>1. /\ Len(journal) \in Nat /\ DOMAIN journal = 1..Len(journal) /\ T \in SUBSET Nat
      /\ T = (1..Len(journal)) \ behind /\ Sound(journal, T) /\ Told(journal, T, db)
  BY CoreFacts DEF Heeded, CoreInv
<1>2. \A n \in 1..Len(journal) :
        journal[n].kind \in Kinds /\ (journal[n].kind = "created" => IsMap(journal[n].body.values))
  BY <1>1 DEF CoreInv, JournalInv, EventFits
<1>3. Told(journal, T, fold) /\ AllValuesTold(journal, T, fold)
  BY <1>1, <1>2, ReplayTold
<1> HIDE DEF fold, T
<1>4. /\ DOMAIN db.records = DOMAIN fold.records /\ DOMAIN db.since = DOMAIN fold.since
      /\ \A x \in DOMAIN db.records : db.records[x].entity = fold.records[x].entity
      /\ \A x \in DOMAIN db.since :
           SinceLast(journal, T, db, x) /\ SinceLast(journal, T, fold, x) => db.since[x] = fold.since[x]
      /\ db.links = fold.links /\ db.tasks = fold.tasks
  <2>1. T \in SUBSET Nat /\ Told(journal, T, db) /\ Told(journal, T, fold)
    BY <1>1, <1>3
  <2> QED BY ONLY <2>1, ToldSame
<1>5. ASSUME NEW x \in DOMAIN db.records \ skew
      PROVE  db.records[x] = fold.records[x] /\ db.since[x] = fold.since[x]
  <2>1. PICK b \in Born(journal, T) : journal[b].id = x
    BY <1>1 DEF Told, RecordsTold
  <2>2. /\ LET r == db.records[x] IN r = [entity |-> journal[b].entity, values |-> r.values] /\ IsMap(r.values)
        /\ LET r == fold.records[x] IN r = [entity |-> journal[b].entity, values |-> r.values] /\ IsMap(r.values)
    BY <1>1, <1>3, <2>1 DEF Told, RecordsTold
  <2>3. AsTold(journal, T, db, x)
    BY <2>1 DEF CoreInv, ValuesInv, T
  <2>4. AsTold(journal, T, fold, x)
    BY <1>3, <2>1 DEF AllValuesTold
  <2>5. db.records[x].values = fold.records[x].values
    BY <1>1, <2>2, <2>3, <2>4, ValuesSame DEF AsTold
  <2>6. x \in DOMAIN db.since
    BY <1>1 DEF Told, SinceTold
  <2> QED BY <1>4, <2>2, <2>3, <2>4, <2>5, <2>6 DEF AsTold
<1>6. [db EXCEPT !.comments = {}, !.records = <<>>, !.since = <<>>]
        = [fold EXCEPT !.comments = {}, !.records = <<>>, !.since = <<>>]
  <2>1. IsProjection(db) /\ IsProjection(fold)
    BY <1>1, <1>3 DEF Told
  <2>2. ASSUME NEW d, IsProjection(d), NEW o
        PROVE  [d EXCEPT !.comments = {}, !.records = o, !.since = o] =
                 [records |-> o, since |-> o, links |-> d.links,
                  comments |-> {}, tasks |-> d.tasks]
    <3> DEFINE g == [records |-> d.records, since |-> d.since, links |-> d.links,
                     comments |-> d.comments, tasks |-> d.tasks]
    <3>1. ASSUME NEW p, p = [g EXCEPT !.comments = {}, !.records = o, !.since = o]
          PROVE  /\ p.records = o /\ p.since = o /\ p.links = d.links
                 /\ p.comments = {} /\ p.tasks = d.tasks /\ IsProjection(p)
      BY <3>1 DEF IsProjection
    <3>2. d = g
      BY <2>2 DEF IsProjection
    <3> HIDE DEF g
    <3>3. PICK p : /\ p = [d EXCEPT !.comments = {}, !.records = o, !.since = o]
                   /\ p.records = o /\ p.since = o /\ p.links = d.links
                   /\ p.comments = {} /\ p.tasks = d.tasks /\ IsProjection(p)
      BY <3>1, <3>2
    <3> QED BY <3>3 DEF IsProjection
  <2>3. PICK o : o = <<>>
    OBVIOUS
  <2>4. /\ [db EXCEPT !.comments = {}, !.records = o, !.since = o] =
             [records |-> o, since |-> o, links |-> db.links, comments |-> {}, tasks |-> db.tasks]
        /\ [fold EXCEPT !.comments = {}, !.records = o, !.since = o] =
             [records |-> o, since |-> o, links |-> fold.links, comments |-> {}, tasks |-> fold.tasks]
    BY <2>1, <2>2
  <2> QED BY <1>4, <2>3, <2>4
<1>7. ASSUME NEW id \in Minted, NEW staff \in BOOLEAN
      PROVE  CommentsOf(db, id, staff) = CommentsOf(fold, id, staff)
  <2>1. ASSUME NEW d, Told(journal, T, d)
        PROVE  CommentsOf(d, id, staff) =
                 {[event |-> n, after |-> {m \in Thread(journal, T, id, staff) : m < n}] :
                    n \in Thread(journal, T, id, staff)}
    <3>1. T \in SUBSET Nat
      BY <1>1
    <3> QED BY ONLY <2>1, <3>1, staff \in BOOLEAN, ThreadTold
  <2> QED BY <1>1, <1>3, <2>1
<1>8. DOMAIN db.since = DOMAIN db.records
  BY <1>1 DEF Told, SinceTold
<1> QED BY <1>4, <1>5, <1>6, <1>7, <1>8 DEF fold, ReplayRestores


(* What a restart folds from the events the node was told of is what the   *)
(* node shows (engine.go, New, applyEvent), but for the values and the     *)
(* clocks of the records that a repeated create, update or transition      *)
(* wrote over an older event since the process began.                      *)
THEOREM ReplayRestored == Spec => []ReplayRestores
BY Projection, CoreRestores, PTL

-----------------------------------------------------------------------------
(* Unique values, references and numbers among the records that were       *)
(* answered.                                                               *)
Apart(e, v, w) ==
  /\ \A d \in Fields(Decl[e]) :
       d.unique /\ d.name # StateField[e] /\ ValueAt(v, d.name) # Nil =>
         ValueAt(v, d.name) # ValueAt(w, d.name)
  /\ \A fields \in Decl[e].constraints :
       StateField[e] \notin fields => \E f \in fields : ValueAt(v, f) # ValueAt(w, f)

Values(x) == db.records[x].values

Written(v, d) ==
  d.name \in DOMAIN v /\ \E y \in Years, k \in 1..MaxSerial : v[d.name] = Text(Format(d.format, y, k))

Counted(x, d) == IsSerial(d) /\ Numbered(x, d.name)

BothImported(x, y) == Imported(x) /\ Imported(y)

DistinctInv ==
  \A e \in Entity : \A x \in Heard(e) :
    /\ ~Imported(x) => RefsExist(Decl[e], Values(x), db.records, Core)
    /\ \A d \in Fields(Decl[e]) : Counted(x, d) => Written(Values(x), d)
    /\ \A y \in Heard(e) \ {x} : ~BothImported(x, y) =>
         /\ ~Decl[e].singleton
         /\ Apart(e, Values(x), Values(y))
         /\ \A d \in Fields(Decl[e]) :
              TellsNumbers(d.format) /\ Counted(x, d) /\ Counted(y, d) =>
                Values(x)[d.name] # Values(y)[d.name]

LEMMA ApartBoth ==
  ASSUME NEW e, NEW v, NEW w, Apart(e, v, w)
  PROVE  Apart(e, w, v)
BY DEF Apart

LEMMA ApartSame ==
  ASSUME NEW e, NEW u, NEW v, NEW w, Apart(e, v, w),
         \A f : f # StateField[e] => ValueAt(u, f) = ValueAt(v, f)
  PROVE  Apart(e, u, w)
<1>1. ASSUME NEW d \in Fields(Decl[e]), d.unique, d.name # StateField[e], ValueAt(u, d.name) # Nil
      PROVE  ValueAt(u, d.name) # ValueAt(w, d.name)
  BY <1>1 DEF Apart
<1>2. ASSUME NEW fields \in Decl[e].constraints, StateField[e] \notin fields
      PROVE  \E f \in fields : ValueAt(u, f) # ValueAt(w, f)
  <2>1. PICK f \in fields : ValueAt(v, f) # ValueAt(w, f)
    BY <1>2 DEF Apart
  <2> QED BY <1>2, <2>1
<1> QED BY <1>1, <1>2 DEF Apart

(* What checkUnique finds, over a declaration or what a move may not break.*)
LEMMA UniqueApart ==
  ASSUME NEW e, NEW v, NEW self, NEW records, UniqueWithin(e, Decl[e], v, self, records),
         NEW y, NEW w, y \in Of(e, records), y # self, w = records[y].values
  PROVE  Apart(e, v, w)
BY DEF UniqueWithin, Apart, Same

LEMMA UngovernedIs ==
  ASSUME NEW e
  PROVE  /\ \A d \in Fields(Ungoverned(e)) :
              \E c \in Fields(Decl[e]) : /\ d.name = c.name
                                         /\ d.unique => c.unique /\ c.name # StateField[e]
         /\ \A fields \in Ungoverned(e).constraints :
              fields \in Decl[e].constraints /\ StateField[e] \notin fields
<1> DEFINE kept(d) == [name |-> d.name, unique |-> d.unique /\ d.name # StateField[e]]
           s == [i \in DOMAIN Decl[e].fields |-> kept(Decl[e].fields[i])]
<1>1. Ungoverned(e).fields = s
  BY DEF Ungoverned
<1>2. ASSUME NEW d \in Fields(Ungoverned(e))
      PROVE  \E c \in Fields(Decl[e]) : /\ d.name = c.name
                                        /\ d.unique => c.unique /\ c.name # StateField[e]
  <2>1. PICK i \in DOMAIN s : d = s[i]
    BY <1>1 DEF Fields
  <2>2. Decl[e].fields[i] \in Fields(Decl[e]) /\ d = kept(Decl[e].fields[i])
    BY <2>1 DEF Fields
  <2> QED BY <2>2
<1>3. Ungoverned(e).constraints = {fields \in Decl[e].constraints : StateField[e] \notin fields}
  BY DEF Ungoverned
<1> QED BY <1>2, <1>3

LEMMA ApartUnique ==
  ASSUME NEW e, NEW v, NEW x, NEW records,
         \A y \in Of(e, records) \ {x} : Apart(e, v, records[y].values)
  PROVE  UniqueWithin(e, Ungoverned(e), v, x, records)
<1> SUFFICES ASSUME NEW y \in Of(e, records) \ {x}
             PROVE  /\ \A d \in Fields(Ungoverned(e)) :
                         d.unique /\ ValueAt(v, d.name) # Nil => ~Same({d.name}, v, records[y].values)
                    /\ \A fields \in Ungoverned(e).constraints : ~Same(fields, v, records[y].values)
  BY DEF UniqueWithin
<1>1. Apart(e, v, records[y].values)
  OBVIOUS
<1>2. ASSUME NEW d \in Fields(Ungoverned(e)), d.unique, ValueAt(v, d.name) # Nil
      PROVE  ~Same({d.name}, v, records[y].values)
  <2>1. PICK c \in Fields(Decl[e]) : /\ d.name = c.name
                                     /\ d.unique => c.unique /\ c.name # StateField[e]
    BY UngovernedIs
  <2>2. ValueAt(v, d.name) # ValueAt(records[y].values, d.name)
    BY <1>1, <1>2, <2>1 DEF Apart
  <2> QED BY <2>2 DEF Same
<1>3. ASSUME NEW fields \in Ungoverned(e).constraints
      PROVE  ~Same(fields, v, records[y].values)
  <2>1. fields \in Decl[e].constraints /\ StateField[e] \notin fields
    BY UngovernedIs
  <2> QED BY <1>1, <2>1 DEF Apart, Same
<1> QED BY <1>2, <1>3


LEMMA DistinctIsUnique == CoreInv /\ DistinctInv => UniqueAmongHeard
<1> SUFFICES ASSUME CoreInv, DistinctInv, NEW e \in Entity, NEW id \in Heard(e)
             PROVE  LET values == db.records[id].values
                        others == {x \in Heard(e) \ {id} : ~(Imported(id) /\ Imported(x))}
                    IN  /\ Decl[e].singleton => others = {}
                        /\ UniqueWithin(e, Ungoverned(e), values, id, [x \in others |-> db.records[x]])
                        /\ ~Imported(id) => RefsExist(Decl[e], values, db.records, Core)
                        /\ \A d \in Fields(Decl[e]), other \in others :
                             /\ IsSerial(d) /\ TellsNumbers(d.format)
                             /\ Numbered(id, d.name) /\ Numbered(other, d.name)
                             => values[d.name] # db.records[other].values[d.name]
  BY DEF UniqueAmongHeard
<1> DEFINE others == {x \in Heard(e) \ {id} : ~(Imported(id) /\ Imported(x))}
           R == [x \in others |-> db.records[x]]
<1>1. \A y \in others :
        /\ ~Decl[e].singleton /\ Apart(e, Values(id), Values(y))
        /\ \A d \in Fields(Decl[e]) :
             TellsNumbers(d.format) /\ Counted(id, d) /\ Counted(y, d) =>
               Values(id)[d.name] # Values(y)[d.name]
  BY DEF DistinctInv, BothImported
<1>2. ~Imported(id) => RefsExist(Decl[e], Values(id), db.records, Core)
  BY DEF DistinctInv
<1> HIDE DEF others
<1>3. \A y \in Of(e, R) \ {id} : Apart(e, Values(id), R[y].values)
  BY <1>1 DEF Of, Values
<1>4. UniqueWithin(e, Ungoverned(e), Values(id), id, R)
  <2> HIDE DEF R
  <2> QED BY <1>3, ApartUnique
<1>5. Decl[e].singleton => others = {}
  BY <1>1
<1> QED BY <1>1, <1>2, <1>4, <1>5 DEF Values, Counted, others


(* A birth is found, and numbers stay given while the journal grows.       *)
Longer ==
  /\ \A n \in DOMAIN journal : n \in DOMAIN journal' /\ journal'[n] = journal[n]
  /\ rewritten \subseteq rewritten'

LEMMA BirthIs ==
  ASSUME CoreInv, NEW x \in DOMAIN db.records
  PROVE  /\ Birth(x) \in DOMAIN journal /\ journal[Birth(x)].kind = "created"
         /\ journal[Birth(x)].id = x /\ Birth(x) \in Heeded
<1>1. PICK b \in Born(journal, Heeded) : journal[b].id = x
  BY DEF CoreInv, Told, RecordsTold
<1>2. b \in DOMAIN journal /\ journal[b].kind = "created" /\ b \in Heeded
  BY <1>1, CoreFacts DEF Born
<1>3. /\ Birth(x) \in DOMAIN journal /\ journal[Birth(x)].kind = "created"
      /\ journal[Birth(x)].id = x
  BY <1>1, <1>2 DEF Birth
<1>4. Birth(x) = b
  BY <1>1, <1>2, <1>3 DEF CoreInv, JournalInv, BornOnce
<1> QED BY <1>2, <1>3, <1>4

LEMMA BirthStays ==
  ASSUME CoreInv, CoreInv', Longer, NEW x \in DOMAIN db.records
  PROVE  /\ Birth(x)' = Birth(x) /\ journal'[Birth(x)] = journal[Birth(x)]
         /\ Imported(x)' = Imported(x)
<1>1. /\ Birth(x) \in DOMAIN journal /\ journal[Birth(x)].kind = "created"
      /\ journal[Birth(x)].id = x
  BY BirthIs
<1>2. Birth(x) \in DOMAIN journal' /\ journal'[Birth(x)] = journal[Birth(x)]
  BY <1>1 DEF Longer
<1>3. /\ Birth(x)' \in DOMAIN journal' /\ journal'[Birth(x)'].kind = "created"
      /\ journal'[Birth(x)'].id = x
  BY <1>1, <1>2 DEF Birth
<1>4. BornOnce(journal')
  BY DEF CoreInv, JournalInv
<1>5. Birth(x)' = Birth(x)
  BY <1>1, <1>2, <1>3, <1>4 DEF BornOnce
<1> QED BY <1>2, <1>5 DEF Imported

LEMMA NumberedBefore ==
  ASSUME CoreInv, CoreInv', Longer, NEW x \in DOMAIN db.records, NEW f, Numbered(x, f)'
  PROVE  Numbered(x, f)
<1>1. f \notin journal[Birth(x)].body.given /\ ~Imported(x)
  BY BirthStays DEF Numbered
<1>2. ASSUME NEW n \in DOMAIN journal, journal[n].kind = "updated", journal[n].id = x
      PROVE  f \notin DOMAIN journal[n].body
  BY <1>2 DEF Longer, Numbered
<1> QED BY <1>1, <1>2 DEF Numbered

LEMMA HeardBefore ==
  ASSUME Longer, NEW e, NEW x \in Heard(e)', x \in Of(e, db.records)
  PROVE  x \in Heard(e)
<1>1. \A n \in Lost : n \in Lost' /\ journal'[n] = journal[n]
  BY DEF Longer, Lost
<1>2. x \notin rewritten /\ \A n \in Lost' : journal'[n].id # x
  BY DEF Longer, Heard
<1>3. \A n \in Lost : journal[n].id # x
  BY <1>1, <1>2
<1> QED BY <1>2, <1>3 DEF Heard

(* A step that changes at most one of the records that were answered.      *)
Steady(e, x) == x \in Heard(e) /\ Values(x)' = Values(x)

LEMMA DistinctKept ==
  ASSUME CoreInv, CoreInv', DistinctInv, Longer, NEW c, NEW y,
         \A e \in Entity : \A x \in Heard(e)' : Steady(e, x) \/ (e = c /\ x = y),
         \A t : Of(t, db.records) \subseteq Of(t, db.records)',
         y \in Heard(c)' =>
           /\ ~Imported(y)' => RefsExist(Decl[c], Values(y)', db.records, Core)
           /\ \A d \in Fields(Decl[c]) : Counted(y, d)' => Written(Values(y)', d)
           /\ \A x \in Heard(c) \ {y} : ~(Imported(y)' /\ Imported(x)) =>
                /\ ~Decl[c].singleton
                /\ Apart(c, Values(y)', Values(x))
                /\ \A d \in Fields(Decl[c]) :
                     TellsNumbers(d.format) /\ Counted(x, d) /\ Counted(y, d)' =>
                       Values(y)'[d.name] # Values(x)[d.name]
  PROVE  DistinctInv'
<1>1. ASSUME NEW e, NEW v, RefsExist(Decl[e], v, db.records, Core)
      PROVE  RefsExist(Decl[e], v, db'.records, Core)
  <2>1. \A t : Of(t, db.records) \subseteq Of(t, db'.records)
    BY DEF Of
  <2> QED BY <1>1, <2>1 DEF RefsExist
<1>2. ASSUME NEW e, NEW x, NEW d, x \in Heard(e), Counted(x, d)' PROVE Counted(x, d)
  BY <1>2, NumberedBefore DEF Counted, Heard, Of
<1>6. ASSUME NEW e, NEW x, x \in Heard(e) PROVE Imported(x)' = Imported(x)
  BY <1>6, BirthStays DEF Heard, Of
<1> SUFFICES ASSUME NEW e \in Entity, NEW x \in Heard(e)'
             PROVE  /\ ~Imported(x)' => RefsExist(Decl[e], Values(x)', db'.records, Core)
                    /\ \A d \in Fields(Decl[e]) : Counted(x, d)' => Written(Values(x)', d)
                    /\ \A z \in Heard(e)' \ {x} : ~BothImported(x, z)' =>
                         /\ ~Decl[e].singleton
                         /\ Apart(e, Values(x)', Values(z)')
                         /\ \A d \in Fields(Decl[e]) :
                              TellsNumbers(d.format) /\ Counted(x, d)' /\ Counted(z, d)' =>
                                Values(x)'[d.name] # Values(z)'[d.name]
  BY DEF DistinctInv
<1>3. ~Imported(x)' => RefsExist(Decl[e], Values(x)', db'.records, Core)
  BY <1>1, <1>6 DEF Steady, DistinctInv
<1>4. \A d \in Fields(Decl[e]) : Counted(x, d)' => Written(Values(x)', d)
  BY <1>2 DEF Steady, DistinctInv
<1>5. ASSUME NEW z \in Heard(e)' \ {x}, ~BothImported(x, z)'
      PROVE  /\ ~Decl[e].singleton
             /\ Apart(e, Values(x)', Values(z)')
             /\ \A d \in Fields(Decl[e]) :
                  TellsNumbers(d.format) /\ Counted(x, d)' /\ Counted(z, d)' =>
                    Values(x)'[d.name] # Values(z)'[d.name]
  <2>1. CASE Steady(e, x) /\ Steady(e, z)
    <3>1. ~BothImported(x, z)
      BY <1>5, <1>6, <2>1 DEF Steady, BothImported
    <3> QED BY <1>2, <2>1, <3>1 DEF Steady, DistinctInv
  <2>2. CASE e = c /\ x = y /\ Steady(e, z)
    <3>1. ~(Imported(y)' /\ Imported(z))
      BY <1>5, <1>6, <2>2 DEF Steady, BothImported
    <3> QED BY <1>2, <2>2, <3>1 DEF Steady
  <2>3. CASE e = c /\ z = y /\ Steady(e, x)
    <3>1. y \in Heard(c)' /\ x \in Heard(c) \ {y}
      BY <2>3 DEF Steady
    <3>2. ~(Imported(y)' /\ Imported(x))
      BY <1>5, <1>6, <2>3 DEF Steady, BothImported
    <3>3. Apart(c, Values(y)', Values(x))
      BY <3>1, <3>2
    <3>4. Apart(e, Values(z)', Values(x))
      BY <2>3, <3>3
    <3> QED BY <1>2, <2>3, <3>1, <3>2, <3>4, ApartBoth DEF Steady
  <2> QED BY <2>1, <2>2, <2>3
<1> QED BY <1>3, <1>4, <1>5


LEMMA StillDistinct ==
  ASSUME CoreInv, CoreInv', DistinctInv, Longer,
         \A e \in Entity : \A x \in Heard(e)' : Steady(e, x),
         \A t : Of(t, db.records) \subseteq Of(t, db.records)'
  PROVE  DistinctInv'
<1> SUFFICES ASSUME Entity # {} PROVE DistinctInv'
  BY DEF DistinctInv
<1>1. PICK c \in Entity : TRUE
  OBVIOUS
<1>2. PICK y : y \notin Heard(c)'
  <2> DEFINE U == Heard(c)'
  <2>1. \E y : y \notin U
    <3>1. {z \in U : z \notin z} \notin U
      OBVIOUS
    <3> QED BY <3>1
  <2> QED BY <2>1
<1> QED BY <1>2, DistinctKept

LEMMA SameRecordsDistinct ==
  ASSUME CoreInv, CoreInv', DistinctInv, Longer, db'.records = db.records
  PROVE  DistinctInv'
<1>1. ASSUME NEW e \in Entity, NEW x \in Heard(e)' PROVE Steady(e, x)
  <2>1. x \in Of(e, db.records)
    BY DEF Heard, Of
  <2> QED BY <2>1, HeardBefore DEF Steady, Values
<1>2. \A t : Of(t, db.records) \subseteq Of(t, db.records)'
  BY DEF Of
<1> QED BY <1>1, <1>2, StillDistinct

LEMMA AgainDistinct ==
  ASSUME CoreInv, CoreInv', DistinctInv, NEW n \in behind, NEW b, Again(n, b)
  PROVE  DistinctInv'
<1>1. /\ journal' = journal /\ n \in Lost /\ journal[n].id \notin DOMAIN db.records
      /\ db'.records = Over(Entry(journal[n].id, [entity |-> journal[n].entity, values |-> b.values]), db.records)
      /\ rewritten \subseteq rewritten'
  BY DEF Again, Marks, CoreInv
<1>2. Longer
  BY <1>1 DEF Longer
<1>3. \A x \in DOMAIN db.records : x \in DOMAIN db'.records /\ db'.records[x] = db.records[x]
  BY <1>1 DEF Over, Entry
<1>4. ASSUME NEW e \in Entity, NEW x \in Heard(e)' PROVE Steady(e, x)
  <2>1. x \in Of(e, db'.records) /\ x # journal[n].id
    BY <1>1 DEF Heard, Lost
  <2>2. x \in DOMAIN db.records
    BY <1>1, <2>1 DEF Of, Over, Entry
  <2>3. x \in Of(e, db.records)
    BY <1>3, <2>1, <2>2 DEF Of
  <2> QED BY <1>2, <1>3, <2>2, <2>3, HeardBefore DEF Steady, Values
<1>5. \A t : Of(t, db.records) \subseteq Of(t, db.records)'
  BY <1>3 DEF Of
<1> QED BY <1>2, <1>4, <1>5, StillDistinct

(* What a repeated update or transition writes, it marks: unless it is what*)
(* was stored, unheard.                                                    *)
LEMMA RewriteDistinct ==
  ASSUME CoreInv, CoreInv', DistinctInv, NEW n, NEW b, Rewrites(n, b)
  PROVE  DistinctInv'
<1> DEFINE x == journal[n].id
<1>1. /\ journal' = journal /\ Marks(x, AsStored(n, b)) /\ n \in DOMAIN journal
      /\ DOMAIN db'.records = DOMAIN db.records
      /\ db'.records[x].entity = db.records[x].entity
      /\ \A y \in DOMAIN db.records \ {x} : db'.records[y] = db.records[y]
  BY DEF Rewrites
<1>2. Longer
  BY <1>1 DEF Longer, Marks
<1>3. \A t : Of(t, db.records)' = Of(t, db.records)
  BY <1>1 DEF Of
<1>4. ASSUME NEW e \in Entity, NEW y \in Heard(e)' PROVE Steady(e, y)
  <2>1. y \in Of(e, db.records) /\ y \in DOMAIN db.records
    BY <1>3 DEF Heard, Of
  <2>2. y # x
    <3>1. AsStored(n, b) => n \in Lost
      BY DEF AsStored, CoreInv
    <3>2. x \in rewritten' \/ n \in Lost'
      BY <1>1, <3>1 DEF Marks, Lost
    <3> QED BY <1>1, <3>2 DEF Heard
  <2>3. Values(y)' = Values(y)
    BY <1>1, <2>1, <2>2 DEF Values
  <2> QED BY <1>2, <2>1, <2>3, HeardBefore DEF Steady
<1> QED BY <1>2, <1>3, <1>4, StillDistinct

(* Records of an old era are read when there are no others.                *)
LEMMA ImportDistinct ==
  ASSUME CoreInv, NEW e \in Entity, NEW values \in Imports[e], ImportRecord(e, values)
  PROVE  DistinctInv'
<1> DEFINE v == ImportEvent(e, values)
<1>1. Called(v) /\ HeardStep(v)
  BY ImportCalls
<1>2. v.body.imported
  BY DEF ImportEvent, Event, Body
<1> HIDE DEF v
<1>3. CoreInv'
  BY <1>1, CalledKeepsCore
<1>4. /\ DOMAIN journal = 1..Len(journal) /\ Len(journal) \in Nat
      /\ DOMAIN journal' = 1..(Len(journal) + 1)
      /\ \A m \in 1..Len(journal) : journal'[m] = journal[m]
      /\ journal'[Len(journal) + 1] = v
  BY <1>1, CoreFacts, AppendShape DEF Called
<1>5. \A m \in DOMAIN journal' : journal'[m].body.imported
  BY <1>2, <1>4 DEF ImportRecord
<1>6. ASSUME NEW x \in DOMAIN db'.records
      PROVE  Imported(x)'
  <2>1. PICK b \in Born(journal', Heeded') : journal'[b].id = x
    BY <1>3 DEF CoreInv, Told, RecordsTold
  <2>2. b \in DOMAIN journal' /\ journal'[b].kind = "created"
    BY <2>1 DEF Born, Heeded
  <2>3. Birth(x)' \in DOMAIN journal'
    BY <2>1, <2>2 DEF Birth
  <2> QED BY <1>5, <2>3 DEF Imported
<1>7. \A t, x : x \in Heard(t)' => Imported(x)'
  BY <1>6 DEF Heard, Of
<1> QED BY <1>7 DEF DistinctInv, BothImported, Counted, Numbered

LEMMA RestartDistinct ==
  ASSUME CoreInv, CoreInv', DistinctInv, Restart
  PROVE  DistinctInv'
<1> DEFINE N == DOMAIN journal
           d == db'
<1>1. journal' = journal /\ behind' = {} /\ skew' = {} /\ rewritten' = rewritten /\ Heeded' = N /\ Heeded \subseteq N
      /\ Heeded \in SUBSET Nat /\ N \in SUBSET Nat
  BY CoreFacts DEF Restart, Heeded
<1>2. Longer
  BY <1>1 DEF Longer
<1>3. RecordsTold(journal, Heeded, db) /\ RecordsTold(journal, N, d)
  BY <1>1 DEF CoreInv, Told
<1>4. \A n \in N : n \in Heeded \/ n \in Lost
  BY DEF Heeded, CoreInv
<1>5. ASSUME NEW e, NEW x \in Of(e, db.records)
      PROVE  x \in Of(e, d.records)
  <2>1. PICK b \in Born(journal, Heeded) : journal[b].id = x
    BY <1>3 DEF RecordsTold, Of
  <2>2. b \in Born(journal, N)
    BY <1>1, <2>1 DEF Born
  <2>3. LET r == db.records[x] IN r = [entity |-> journal[b].entity, values |-> r.values]
    BY <1>3, <2>1 DEF RecordsTold
  <2>4. LET r == d.records[x] IN r = [entity |-> journal[b].entity, values |-> r.values]
    BY <1>3, <2>1, <2>2 DEF RecordsTold
  <2>5. x \in DOMAIN d.records
    BY <1>3, <2>1, <2>2 DEF RecordsTold
  <2> QED BY <2>3, <2>4, <2>5 DEF Of
<1>6. ASSUME NEW e \in Entity, NEW x \in Heard(e)' PROVE Steady(e, x)
  <2>1. x \in Of(e, d.records) /\ \A n \in Lost : journal[n].id # x
    BY <1>1 DEF Heard, Lost
  <2>2. PICK b \in Born(journal, N) : journal[b].id = x
    BY <1>3, <2>1 DEF RecordsTold, Of
  <2>3. b \in Heeded /\ b \in Born(journal, Heeded) /\ ~journal[b].lost
    BY <1>4, <2>1, <2>2 DEF Born, Lost
  <2>4. LET r == db.records[x] IN r = [entity |-> journal[b].entity, values |-> r.values] /\ IsMap(r.values)
    BY <1>3, <2>2, <2>3 DEF RecordsTold
  <2>5. LET r == d.records[x] IN r = [entity |-> journal[b].entity, values |-> r.values] /\ IsMap(r.values)
    BY <1>3, <2>2 DEF RecordsTold
  <2>6. x \in DOMAIN db.records
    BY <1>3, <2>2, <2>3 DEF RecordsTold
  <2>7. x \in Of(e, db.records)
    BY <2>1, <2>4, <2>5, <2>6 DEF Of
  <2>12. x \notin skew
    BY <1>1 DEF Heard, CoreInv
  <2>8. ValuesTold(journal, Heeded, x, db.records[x].values)
    BY <2>2, <2>3, <2>12 DEF CoreInv, ValuesInv, AsTold
  <2>9. ValuesTold(journal, N, x, d.records[x].values)
    BY <1>1, <2>2 DEF CoreInv, ValuesInv, AsTold
  <2>10. \A n \in N : journal[n].id = x => n \in Heeded
    BY <1>4, <2>1
  <2> HIDE DEF N, d
  <2>11. db.records[x].values = d.records[x].values
    BY <1>1, <2>4, <2>5, <2>8, <2>9, <2>10, ValuesSame
  <2> QED BY <1>2, <2>7, <2>11, HeardBefore DEF Steady, Values, d
<1>7. \A t : Of(t, db.records) \subseteq Of(t, db.records)'
  BY <1>5 DEF Of
<1> QED BY <1>2, <1>6, <1>7, StillDistinct


(* A call that was lost, or that is about no record's values.              *)
LEMMA CallLonger ==
  ASSUME CoreInv, NEW e, Called(e)
  PROVE  /\ Longer /\ CoreInv'
         /\ LostStep(e) => db' = db
         /\ HeardStep(e) => /\ db'.records = Apply(db, Len(journal) + 1, e).records
                            /\ IsProjection(db)
                            /\ journal'[Len(journal) + 1] = e
                            /\ Len(journal) + 1 \in DOMAIN journal'
<1>1. Longer
  <2>1. DOMAIN journal = 1..Len(journal) /\ Len(journal) \in Nat
    BY CoreFacts
  <2>2. /\ DOMAIN journal' = 1..(Len(journal) + 1)
        /\ \A m \in 1..Len(journal) : journal'[m] = journal[m]
        /\ HeardStep(e) => journal'[Len(journal) + 1] = e
    BY AppendShape DEF Called
  <2>3. rewritten' = rewritten
    BY DEF Called, HeardStep, LostStep
  <2> QED BY <2>1, <2>2, <2>3 DEF Longer
<1>2. HeardStep(e) => /\ journal'[Len(journal) + 1] = e
                      /\ Len(journal) + 1 \in DOMAIN journal'
  <2>1. Len(journal) \in Nat
    BY CoreFacts
  <2>2. /\ DOMAIN journal' = 1..(Len(journal) + 1)
        /\ HeardStep(e) => journal'[Len(journal) + 1] = e
    BY AppendShape DEF Called
  <2> QED BY <2>1, <2>2
<1>3. HeardStep(e) => db'.records = Apply(db, Len(journal) + 1, e).records /\ IsProjection(db)
  BY ProjectRecords DEF HeardStep, CoreInv, Told
<1> QED BY <1>1, <1>2, <1>3, CalledKeepsCore DEF LostStep

LEMMA OtherDistinct ==
  ASSUME CoreInv, DistinctInv, NEW e, Called(e),
         LostStep(e) \/ e.kind \in {"linked", "unlinked", "comment"}
  PROVE  DistinctInv'
<1>1. db'.records = db.records
  <2>1. CASE LostStep(e)
    BY <2>1, CallLonger
  <2>2. CASE HeardStep(e) /\ e.kind = "linked"
    BY <2>2, CallLonger, LinkedApplied
  <2>3. CASE HeardStep(e) /\ e.kind = "unlinked"
    BY <2>3, CallLonger, UnlinkedApplied
  <2>4. CASE HeardStep(e) /\ e.kind = "comment"
    BY <2>4, CallLonger, CommentApplied
  <2> QED BY <2>1, <2>2, <2>3, <2>4 DEF Called
<1> QED BY <1>1, CallLonger, SameRecordsDistinct

(* A record written to: the others stay.                                   *)
LEMMA WriteShape ==
  ASSUME CoreInv, Longer, NEW c, NEW x \in Of(c, db.records), NEW w,
         DOMAIN db'.records = DOMAIN db.records,
         db'.records[x] = [entity |-> c, values |-> Over(w, Values(x))],
         \A y \in DOMAIN db.records \ {x} : db'.records[y] = db.records[y]
  PROVE  /\ \A e \in Entity : \A z \in Heard(e)' : Steady(e, z) \/ (e = c /\ z = x)
         /\ \A t : Of(t, db.records) \subseteq Of(t, db.records)'
         /\ Values(x)' = Over(w, Values(x))
         /\ x \in Heard(c)' => x \in Heard(c)
<1>1. \A y \in DOMAIN db.records : db'.records[y].entity = db.records[y].entity
  BY DEF Of
<1>2. \A t : Of(t, db.records)' = Of(t, db.records)
  BY <1>1 DEF Of
<1>3. \A e : \A z \in Heard(e)' : z \in Heard(e) /\ z \in Of(e, db.records)
  <2> SUFFICES ASSUME NEW e, NEW z \in Heard(e)' PROVE z \in Heard(e) /\ z \in Of(e, db.records)
    OBVIOUS
  <2>1. z \in Of(e, db.records)'
    BY DEF Heard
  <2> QED BY <1>2, <2>1, HeardBefore
<1>4. ASSUME NEW e \in Entity, NEW z \in Heard(e)', ~Steady(e, z)
      PROVE  e = c /\ z = x
  <2>1. z \in Of(e, db.records) /\ z \in Heard(e)
    BY <1>3
  <2>2. z = x
    BY <1>4, <2>1 DEF Steady, Values, Of
  <2> QED BY <2>1, <2>2 DEF Of
<1>5. Values(x)' = Over(w, Values(x))
  BY DEF Values
<1> QED BY <1>2, <1>3, <1>4, <1>5

LEMMA OverAt ==
  ASSUME NEW m, NEW old, NEW f
  PROVE  /\ f \in DOMAIN Over(m, old) <=> f \in DOMAIN m \/ f \in DOMAIN old
         /\ f \in DOMAIN m => Over(m, old)[f] = m[f]
         /\ f \notin DOMAIN m /\ f \in DOMAIN old => Over(m, old)[f] = old[f]
         /\ f \in DOMAIN m => ValueAt(Over(m, old), f) = m[f]
         /\ f \notin DOMAIN m => ValueAt(Over(m, old), f) = ValueAt(old, f)
BY DEF Over, ValueAt

LEMMA MoveDistinct ==
  ASSUME CoreInv, DistinctInv, NEW e \in Entity, NEW id, NEW to,
         NEW key \in Keys \cup {NoKey}, Move(e, id, to, key)
  PROVE  DistinctInv'
<1> DEFINE v == Event("moved", e, id, Text(to), key)
           w == Entry(StateField[e], Text(to))
<1>1. /\ v.kind = "moved" /\ v.entity = e /\ v.id = id /\ v.body = Text(to)
  BY DEF Event
<1>2. Called(v) /\ id \in Of(e, db.records)
  BY MoveCalls DEF Move, MayMove, Exists
<1> HIDE DEF v
<1>3. CASE LostStep(v)
  BY <1>2, <1>3, OtherDistinct
<1>4. CASE HeardStep(v)
  <2>1. /\ Longer /\ CoreInv' /\ IsProjection(db) /\ IsMap(db.records)
        /\ db'.records = Apply(db, Len(journal) + 1, v).records
    BY <1>2, <1>4, CallLonger DEF CoreInv, Told, RecordsTold
  <2>2. db.records[id] = [entity |-> e, values |-> Values(id)]
    <3>1. id \in DOMAIN db.records /\ db.records[id].entity = e
      BY <1>2 DEF Of
    <3>2. LET r == db.records[id] IN r = [entity |-> r.entity, values |-> r.values]
      BY <3>1, RecordIs DEF CoreInv, Told
    <3> QED BY <3>1, <3>2 DEF Values
  <2>3. PICK r : r.entity = e /\ r.values = Values(id)
    <3>1. db.records[id].entity = e /\ db.records[id].values = Values(id)
      BY <2>2
    <3> QED BY <3>1
  <2>4. /\ DOMAIN db'.records = DOMAIN db.records
        /\ db'.records[id] = [entity |-> e, values |-> Over(w, Values(id))]
        /\ \A y \in DOMAIN db.records \ {id} : db'.records[y] = db.records[y]
    <3>1. id \in DOMAIN db.records
      BY <1>2 DEF Of
    <3> HIDE DEF w
    <3>2. v.id \in DOMAIN db.records /\ db.records[v.id] = [entity |-> r.entity, values |-> r.values]
      BY <1>1, <2>2, <2>3, <3>1
    <3>3. /\ DOMAIN Apply(db, Len(journal) + 1, v).records = DOMAIN db.records
          /\ Apply(db, Len(journal) + 1, v).records[v.id] =
               [entity |-> r.entity, values |-> Over(Entry(StateField[v.entity], v.body), r.values)]
          /\ \A y \in DOMAIN db.records \ {v.id} :
               Apply(db, Len(journal) + 1, v).records[y] = db.records[y]
      BY <1>1, <2>1, <3>2, MovedApplied
    <3> QED BY <1>1, <2>1, <2>3, <3>3 DEF w
  <2>5. /\ \A c \in Entity : \A z \in Heard(c)' : Steady(c, z) \/ (c = e /\ z = id)
        /\ \A t : Of(t, db.records) \subseteq Of(t, db.records)'
        /\ Values(id)' = Over(w, Values(id))
        /\ id \in Heard(e)' => id \in Heard(e)
    <3> HIDE DEF w
    <3> QED BY <1>2, <2>1, <2>4, WriteShape
  <2>6. ASSUME NEW f, f # StateField[e]
        PROVE  /\ f \notin DOMAIN w
               /\ ValueAt(Values(id)', f) = ValueAt(Values(id), f)
               /\ f \in DOMAIN Values(id) => f \in DOMAIN Values(id)' /\ Values(id)'[f] = Values(id)[f]
    <3>1. f \notin DOMAIN w
      BY <2>6 DEF Entry
    <3> HIDE DEF w
    <3> QED BY <2>5, <3>1, OverAt
  <2>7. ASSUME NEW d \in Fields(Decl[e]), d.type.kind # "enum"
        PROVE  d.name # StateField[e]
    BY <2>7, DeclFacts
  <2> HIDE DEF w
  <2>8. ASSUME id \in Heard(e)'
        PROVE  /\ ~Imported(id)' => RefsExist(Decl[e], Values(id)', db.records, Core)
               /\ \A d \in Fields(Decl[e]) : Counted(id, d)' => Written(Values(id)', d)
               /\ \A x \in Heard(e) \ {id} : ~(Imported(id)' /\ Imported(x)) =>
                    /\ ~Decl[e].singleton
                    /\ Apart(e, Values(id)', Values(x))
                    /\ \A d \in Fields(Decl[e]) :
                         TellsNumbers(d.format) /\ Counted(x, d) /\ Counted(id, d)' =>
                           Values(id)'[d.name] # Values(x)[d.name]
    <3>1. id \in Heard(e) /\ id \in DOMAIN db.records
      BY <2>5, <2>8 DEF Heard, Of
    <3>6. Imported(id)' = Imported(id)
      BY <2>1, <3>1, BirthStays
    <3>2. ASSUME ~Imported(id)'
          PROVE  RefsExist(Decl[e], Values(id)', db.records, Core)
      <4> SUFFICES ASSUME NEW d \in Fields(Decl[e]), d.type.kind = "ref", d.type.target \notin Core,
                          ValueAt(Values(id)', d.name) # Nil
                   PROVE  Values(id)'[d.name][2] \in Of(d.type.target, db.records)
        BY DEF RefsExist
      <4>1. d.name # StateField[e]
        BY <2>7
      <4>2. ValueAt(Values(id), d.name) # Nil
        BY <2>6, <4>1
      <4>3. d.name \in DOMAIN Values(id)
        BY <4>2 DEF ValueAt
      <4>4. Values(id)[d.name][2] \in Of(d.type.target, db.records)
        BY <3>1, <3>2, <3>6, <4>2 DEF DistinctInv, RefsExist
      <4> QED BY <2>6, <4>1, <4>3, <4>4
    <3>3. ASSUME NEW d \in Fields(Decl[e]), Counted(id, d)'
          PROVE  /\ Counted(id, d) /\ Written(Values(id)', d)
                 /\ Values(id)'[d.name] = Values(id)[d.name]
      <4>1. Counted(id, d)
        BY <2>1, <3>1, <3>3, NumberedBefore DEF Counted
      <4>2. Written(Values(id), d)
        BY <3>1, <4>1 DEF DistinctInv
      <4>3. d.name # StateField[e]
        BY <2>7, <4>1 DEF Counted, IsSerial
      <4> QED BY <2>6, <4>1, <4>2, <4>3 DEF Written
    <3>4. ASSUME NEW x \in Heard(e) \ {id}, ~(Imported(id)' /\ Imported(x))
          PROVE  ~Decl[e].singleton /\ Apart(e, Values(id)', Values(x))
      <4>1. ~Decl[e].singleton /\ Apart(e, Values(id), Values(x))
        BY <3>1, <3>4, <3>6 DEF DistinctInv, BothImported
      <4> QED BY <2>6, <4>1, ApartSame
    <3>5. ASSUME NEW x \in Heard(e) \ {id}, NEW d \in Fields(Decl[e]), TellsNumbers(d.format),
                 Counted(x, d), Counted(id, d)'
          PROVE  Values(id)'[d.name] # Values(x)[d.name]
      <4>1. ~Imported(id)
        BY <3>3, <3>5 DEF Counted, Numbered
      <4> QED BY <3>1, <3>3, <3>5, <4>1 DEF DistinctInv, BothImported
    <3> QED BY <3>2, <3>3, <3>4, <3>5
  <2> QED BY <2>1, <2>5, <2>8, DistinctKept
<1> QED BY <1>2, <1>3, <1>4 DEF Called

LEMMA UpdateDistinct ==
  ASSUME CoreInv, DistinctInv, NEW e \in Entity, NEW id, NEW values,
         NEW key \in Keys \cup {NoKey}, Update(e, id, values, key)
  PROVE  DistinctInv'
<1> DEFINE w == Changed(id, values)
           v == Event("updated", e, id, w, key)
           merged == Over(values, Values(id))
<1>1. /\ v.kind = "updated" /\ v.entity = e /\ v.id = id /\ v.body = w
  BY DEF Event
<1>2. /\ Called(v) /\ id \in Of(e, db.records)
      /\ RefsExist(Decl[e], values, db.records, Core)
      /\ UniqueWithin(e, Decl[e], merged, id, db.records)
  BY UpdateCalls DEF Update, MayUpdate, Exists, Values
<1> HIDE DEF v
<1>3. CASE LostStep(v)
  BY <1>2, <1>3, OtherDistinct
<1>4. CASE HeardStep(v)
  <2>1. /\ Longer /\ CoreInv' /\ IsProjection(db) /\ IsMap(db.records)
        /\ db'.records = Apply(db, Len(journal) + 1, v).records
        /\ journal'[Len(journal) + 1] = v /\ Len(journal) + 1 \in DOMAIN journal'
    BY <1>2, <1>4, CallLonger DEF CoreInv, Told, RecordsTold
  <2>2. db.records[id] = [entity |-> e, values |-> Values(id)]
    <3>1. id \in DOMAIN db.records /\ db.records[id].entity = e
      BY <1>2 DEF Of
    <3>2. LET r == db.records[id] IN r = [entity |-> r.entity, values |-> r.values]
      BY <3>1, RecordIs DEF CoreInv, Told
    <3> QED BY <3>1, <3>2 DEF Values
  <2>3. PICK r : r.entity = e /\ r.values = Values(id)
    <3>1. db.records[id].entity = e /\ db.records[id].values = Values(id)
      BY <2>2
    <3> QED BY <3>1
  <2>4. \A f : /\ f \in DOMAIN w <=> f \in DOMAIN values /\ ValueAt(Values(id), f) # values[f]
               /\ f \in DOMAIN w => w[f] = values[f]
    BY DEF Changed, Differing, Values
  <2> HIDE DEF w
  <2>5. /\ DOMAIN db'.records = DOMAIN db.records
        /\ db'.records[id] = [entity |-> e, values |-> Over(w, Values(id))]
        /\ \A y \in DOMAIN db.records \ {id} : db'.records[y] = db.records[y]
    <3>1. id \in DOMAIN db.records
      BY <1>2 DEF Of
    <3>2. v.id \in DOMAIN db.records /\ db.records[v.id] = [entity |-> r.entity, values |-> r.values]
      BY <1>1, <2>2, <2>3, <3>1
    <3>3. /\ DOMAIN Apply(db, Len(journal) + 1, v).records = DOMAIN db.records
          /\ Apply(db, Len(journal) + 1, v).records[v.id] =
               [entity |-> r.entity, values |-> Over(v.body, r.values)]
          /\ \A y \in DOMAIN db.records \ {v.id} :
               Apply(db, Len(journal) + 1, v).records[y] = db.records[y]
      BY <1>1, <2>1, <3>2, UpdatedApplied
    <3> QED BY <1>1, <2>1, <2>3, <3>3
  <2>6. /\ \A c \in Entity : \A z \in Heard(c)' : Steady(c, z) \/ (c = e /\ z = id)
        /\ \A t : Of(t, db.records) \subseteq Of(t, db.records)'
        /\ Values(id)' = Over(w, Values(id))
        /\ id \in Heard(e)' => id \in Heard(e)
    BY <1>2, <2>1, <2>5, WriteShape
  <2>7. ASSUME NEW f
        PROVE  ValueAt(Values(id)', f) = ValueAt(merged, f)
    <3>1. CASE f \in DOMAIN w
      <4>1. f \in DOMAIN values /\ w[f] = values[f]
        BY <2>4, <3>1
      <4>2. ValueAt(Over(w, Values(id)), f) = values[f] /\ ValueAt(merged, f) = values[f]
        BY <3>1, <4>1, OverAt
      <4> QED BY <2>6, <4>2
    <3>2. CASE f \notin DOMAIN w /\ f \in DOMAIN values
      <4>1. ValueAt(Values(id), f) = values[f]
        BY <2>4, <3>2
      <4>2. ValueAt(Over(w, Values(id)), f) = values[f] /\ ValueAt(merged, f) = values[f]
        BY <3>2, <4>1, OverAt
      <4> QED BY <2>6, <4>2
    <3>3. CASE f \notin DOMAIN values
      <4>1. f \notin DOMAIN w
        BY <2>4, <3>3
      <4>2. ValueAt(Over(w, Values(id)), f) = ValueAt(Values(id), f)
            /\ ValueAt(merged, f) = ValueAt(Values(id), f)
        BY <3>3, <4>1, OverAt
      <4> QED BY <2>6, <4>2
    <3> QED BY <3>1, <3>2, <3>3
  <2>8. ASSUME NEW f, f \notin DOMAIN w
        PROVE  /\ ValueAt(Values(id)', f) = ValueAt(Values(id), f)
               /\ f \in DOMAIN Values(id) => f \in DOMAIN Values(id)' /\ Values(id)'[f] = Values(id)[f]
    BY <2>6, <2>8, OverAt
  <2> HIDE DEF merged
  <2>9. ASSUME id \in Heard(e)'
        PROVE  /\ ~Imported(id)' => RefsExist(Decl[e], Values(id)', db.records, Core)
               /\ \A d \in Fields(Decl[e]) : Counted(id, d)' => Written(Values(id)', d)
               /\ \A x \in Heard(e) \ {id} : ~(Imported(id)' /\ Imported(x)) =>
                    /\ ~Decl[e].singleton
                    /\ Apart(e, Values(id)', Values(x))
                    /\ \A d \in Fields(Decl[e]) :
                         TellsNumbers(d.format) /\ Counted(x, d) /\ Counted(id, d)' =>
                           Values(id)'[d.name] # Values(x)[d.name]
    <3>1. id \in Heard(e) /\ id \in DOMAIN db.records
      BY <2>6, <2>9 DEF Heard, Of
    <3>6. Imported(id)' = Imported(id)
      BY <2>1, <3>1, BirthStays
    <3>2. ASSUME ~Imported(id)'
          PROVE  RefsExist(Decl[e], Values(id)', db.records, Core)
      <4> SUFFICES ASSUME NEW d \in Fields(Decl[e]), d.type.kind = "ref", d.type.target \notin Core,
                          ValueAt(Values(id)', d.name) # Nil
                   PROVE  Values(id)'[d.name][2] \in Of(d.type.target, db.records)
        BY DEF RefsExist
      <4>1. CASE d.name \in DOMAIN w
        <5>1. d.name \in DOMAIN values /\ w[d.name] = values[d.name]
          BY <2>4, <4>1
        <5>2. Values(id)'[d.name] = values[d.name] /\ ValueAt(Values(id)', d.name) = values[d.name]
          BY <2>6, <4>1, <5>1, OverAt
        <5>3. ValueAt(values, d.name) # Nil
          BY <5>1, <5>2 DEF ValueAt
        <5>4. values[d.name][2] \in Of(d.type.target, db.records)
          BY <1>2, <5>3 DEF RefsExist
        <5> QED BY <5>2, <5>4
      <4>2. CASE d.name \notin DOMAIN w
        <5>1. ValueAt(Values(id), d.name) # Nil
          BY <2>8, <4>2
        <5>2. d.name \in DOMAIN Values(id)
          BY <5>1 DEF ValueAt
        <5>3. Values(id)[d.name][2] \in Of(d.type.target, db.records)
          BY <3>1, <3>2, <3>6, <5>1 DEF DistinctInv, RefsExist
        <5> QED BY <2>8, <4>2, <5>2, <5>3
      <4> QED BY <4>1, <4>2
    <3>3. ASSUME NEW d \in Fields(Decl[e]), Counted(id, d)'
          PROVE  /\ Counted(id, d) /\ Written(Values(id)', d)
                 /\ Values(id)'[d.name] = Values(id)[d.name]
      <4>1. Counted(id, d)
        BY <2>1, <3>1, <3>3, NumberedBefore DEF Counted
      <4>2. Written(Values(id), d)
        BY <3>1, <4>1 DEF DistinctInv
      <4>3. d.name \notin DOMAIN w
        <5>1. journal'[Len(journal) + 1].kind = "updated" /\ journal'[Len(journal) + 1].id = id
              /\ journal'[Len(journal) + 1].body = w
          BY <1>1, <2>1
        <5> QED BY <2>1, <3>3, <5>1 DEF Counted, Numbered
      <4> QED BY <2>8, <4>1, <4>2, <4>3 DEF Written
    <3>4. ASSUME NEW x \in Heard(e) \ {id}, ~(Imported(id)' /\ Imported(x))
          PROVE  ~Decl[e].singleton /\ Apart(e, Values(id)', Values(x))
      <4>1. ~Decl[e].singleton
        BY <3>1, <3>4, <3>6 DEF DistinctInv, BothImported
      <4>2. x \in Of(e, db.records) /\ x # id
        BY DEF Heard
      <4>3. Apart(e, merged, Values(x))
        <5>1. Values(x) = db.records[x].values
          BY DEF Values
        <5> HIDE DEF Values
        <5> QED BY <1>2, <4>2, <5>1, UniqueApart
      <4> QED BY <2>7, <4>1, <4>3, ApartSame
    <3>5. ASSUME NEW x \in Heard(e) \ {id}, NEW d \in Fields(Decl[e]), TellsNumbers(d.format),
                 Counted(x, d), Counted(id, d)'
          PROVE  Values(id)'[d.name] # Values(x)[d.name]
      <4>1. ~Imported(id)
        BY <3>3, <3>5 DEF Counted, Numbered
      <4> QED BY <3>1, <3>3, <3>5, <4>1 DEF DistinctInv, BothImported
    <3> QED BY <3>2, <3>3, <3>4, <3>5
  <2> QED BY <2>1, <2>6, <2>9, DistinctKept
<1> QED BY <1>2, <1>3, <1>4 DEF Called

(* The next number is behind every number that can be read.                *)
LEMMA NextSerialIs ==
  ASSUME NEW e, NEW d, NEW records
  PROVE  /\ NextSerial(e, d, records) \in 1..(MaxSerial + 1)
         /\ \A x \in Of(e, records) : \A k \in ParseSeq(ValueAt(records[x].values, d.name), d.format) :
              k < NextSerial(e, d, records)
<1> DEFINE taken == UNION {ParseSeq(ValueAt(records[x].values, d.name), d.format) : x \in Of(e, records)}
           S == {0} \cup taken
           m == CHOOSE n \in S : \A k \in taken : k <= n
<1>1. MaxSerial \in Nat
  BY BoundAssumption
<1>2. taken \subseteq 1..MaxSerial
  BY DEF ParseSeq
<1>3. \A x \in Of(e, records) : ParseSeq(ValueAt(records[x].values, d.name), d.format) \subseteq taken
  OBVIOUS
<1>4. NextSerial(e, d, records) = 1 + m
  BY DEF NextSerial
<1> HIDE DEF taken
<1>5. \E n \in S : \A k \in taken : k <= n
  <2>1. S \in SUBSET (0..MaxSerial) /\ S # {}
    BY <1>1, <1>2
  <2>2. taken \subseteq S
    OBVIOUS
  <2> HIDE DEF S
  <2>3. \E n \in S : \A k \in S : k <= n
    BY <1>1, <2>1, GreatestNumber
  <2> QED BY <2>2, <2>3
<1>6. m \in S /\ \A k \in taken : k <= m
  BY <1>5
<1> HIDE DEF m
<1>7. m \in 0..MaxSerial
  BY <1>1, <1>2, <1>6
<1>8. 1 + m \in 1..(MaxSerial + 1) /\ \A k \in taken : k < 1 + m
  BY <1>1, <1>2, <1>6, <1>7
<1> QED BY <1>3, <1>4, <1>8

(* The kernel's number for a field that the call leaves open.              *)
LEMMA SerialIs ==
  ASSUME NEW e \in Entity, NEW given, NEW d \in Fields(Decl[e]), IsSerial(d), d.name \notin DOMAIN given
  PROVE  LET v == Prepared(e, given)
         IN  d.name \in DOMAIN v /\ v[d.name] = Text(Format(d.format, day, NextSerial(e, d, db.records)))
<1> DEFINE unset == {c \in Fields(Decl[e]) : IsSerial(c) /\ ~Filled(ValueAt(given, c.name))}
           number(f) == CHOOSE n \in {NextSerial(e, c, db.records) : c \in {b \in unset : b.name = f}} : TRUE
           format(f) == (CHOOSE c \in unset : c.name = f).format
           m == [f \in {c.name : c \in unset} |-> Text(Format(format(f), day, number(f)))]
           numbered == AssignSerials(e, Decl[e], given, day, db.records)
<1>1. d \in unset
  <2>1. ValueAt(given, d.name) = Nil
    BY DEF ValueAt
  <2> QED BY <2>1 DEF Filled
<1>2. \A c \in unset : c.name = d.name => c = d
  BY DeclFacts
<1>3. numbered = Over(m, given)
  BY DEF AssignSerials
<1> HIDE DEF unset
<1>4. {c \in unset : c.name = d.name} = {d}
  BY <1>1, <1>2
<1>5. number(d.name) = NextSerial(e, d, db.records)
  <2>1. {NextSerial(e, c, db.records) : c \in {b \in unset : b.name = d.name}} =
          {NextSerial(e, d, db.records)}
    BY <1>4
  <2>2. \A S, x : S = {x} => (CHOOSE n \in S : TRUE) = x
    OBVIOUS
  <2> QED BY <2>1, <2>2
<1>6. format(d.name) = d.format
  <2>1. (CHOOSE c \in unset : c.name = d.name) = d
    BY <1>1, <1>2
  <2> QED BY <2>1
<1> HIDE DEF number, format
<1>7. d.name \in DOMAIN m /\ m[d.name] = Text(Format(d.format, day, NextSerial(e, d, db.records)))
  BY <1>1, <1>5, <1>6
<1> HIDE DEF m
<1>8. d.name \in DOMAIN numbered /\ numbered[d.name] = m[d.name]
  BY <1>3, <1>7, OverAt
<1> HIDE DEF numbered
<1>9. /\ DOMAIN numbered \subseteq DOMAIN Prepared(e, given)
      /\ \A f \in DOMAIN numbered : Prepared(e, given)[f] = numbered[f]
  BY PreparedIs DEF numbered
<1> QED BY <1>7, <1>8, <1>9

(* The heartbeat leaves the records alone.                                 *)
LEMMA BeatLonger ==
  ASSUME CoreInv, NEW failed, NEW H, Beat(failed, H)
  PROVE  Longer /\ db'.records = db.records /\ db'.since = db.since
<1>1. Longer
  <2>1. /\ DOMAIN journal = 1..Len(journal) /\ Len(journal) \in Nat
        /\ Len(journal') \in Len(journal)..MaxEvents
        /\ IsSequence(journal') /\ \A n \in DOMAIN journal : journal'[n] = journal[n]
    BY CoreFacts DEF Beat
  <2>2. DOMAIN journal' = 1..Len(journal')
    BY <2>1, SequenceIs
  <2>3. rewritten' = rewritten
    BY DEF Beat
  <2> QED BY <2>1, <2>2, <2>3 DEF Longer
<1>2. db' = [db EXCEPT !.tasks = @ \cup H] /\ IsProjection(db)
  BY DEF Beat, CoreInv, Told
<1>3. ASSUME NEW p, p = [[records |-> db.records, since |-> db.since, links |-> db.links,
                          comments |-> db.comments, tasks |-> db.tasks] EXCEPT !.tasks = @ \cup H]
      PROVE  p.records = db.records /\ p.since = db.since
  BY <1>3
<1> QED BY <1>1, <1>2, <1>3 DEF IsProjection

(* A record that is born, among those that are there.                      *)
LEMMA BirthShape ==
  ASSUME CoreInv, Longer, NEW c, NEW x, x \notin DOMAIN db.records, NEW v,
         db'.records = Over(Entry(x, [entity |-> c, values |-> v]), db.records)
  PROVE  /\ \A e \in Entity : \A z \in Heard(e)' : Steady(e, z) \/ (e = c /\ z = x)
         /\ \A t : Of(t, db.records) \subseteq Of(t, db.records)'
         /\ Values(x)' = v
<1>1. \A y \in DOMAIN db.records : y \in DOMAIN db'.records /\ db'.records[y] = db.records[y]
  BY DEF Over, Entry
<1>2. db'.records[x] = [entity |-> c, values |-> v]
  BY DEF Over, Entry
<1>3. \A y \in DOMAIN db'.records : y # x => y \in DOMAIN db.records
  BY DEF Over, Entry
<1>4. \A t : Of(t, db.records) \subseteq Of(t, db.records)'
  BY <1>1 DEF Of
<1>5. ASSUME NEW e \in Entity, NEW z \in Heard(e)'
      PROVE  Steady(e, z) \/ (e = c /\ z = x)
  <2>1. z \in DOMAIN db'.records /\ db'.records[z].entity = e
    BY DEF Heard, Of
  <2>2. CASE z = x
    BY <1>2, <2>1, <2>2
  <2>3. CASE z # x
    <3>1. z \in Of(e, db.records) /\ Values(z)' = Values(z)
      BY <1>1, <1>3, <2>1, <2>3 DEF Of, Values
    <3> QED BY <3>1, HeardBefore DEF Steady
  <2> QED BY <2>2, <2>3
<1> QED BY <1>2, <1>4, <1>5 DEF Values

LEMMA CreateDistinct ==
  ASSUME CoreInv, DistinctInv, NEW e \in Entity, NEW given, NEW key \in Keys \cup {NoKey},
         Create(e, given, key)
  PROVE  DistinctInv'
<1>0. PICK x, p : x = FreshId /\ p = Prepared(e, given)
  OBVIOUS
<1> DEFINE b == Body(p, given)
           v == Event("created", e, x, b, key)
<1>1. /\ v.kind = "created" /\ v.entity = e /\ v.id = x /\ v.body = b
      /\ b.values = p /\ b.given = DOMAIN given
  BY DEF Event, Body
<1>2. /\ Called(v) /\ Count("created") < Len(Ids)
      /\ Decl[e].singleton => Of(e, db.records) = {}
      /\ RefsExist(Decl[e], p, db.records, Core)
      /\ UniqueWithin(e, Decl[e], p, NoField, db.records)
      /\ HasNumbers(e)
  BY <1>0, CreateCalls DEF Create, MayCreate, Accepts
<1>3. x \in Minted /\ \A n \in DOMAIN journal : journal[n].kind = "created" => journal[n].id # x
  BY <1>0, <1>2, FreshIdIs
<1>4. ASSUME NEW d \in Fields(Decl[e]), IsSerial(d), d.name \notin DOMAIN given
      PROVE  d.name \in DOMAIN p /\ p[d.name] = Text(Format(d.format, day, NextSerial(e, d, db.records)))
  BY <1>0, <1>4, SerialIs
<1> HIDE DEF v, b
<1>5. CASE LostStep(v)
  BY <1>2, <1>5, OtherDistinct
<1>6. CASE HeardStep(v)
  <2>1. /\ Longer /\ CoreInv' /\ IsProjection(db)
        /\ db'.records = Apply(db, Len(journal) + 1, v).records
        /\ journal'[Len(journal) + 1] = v /\ Len(journal) + 1 \in DOMAIN journal'
    BY <1>2, <1>6, CallLonger
  <2>2. x \notin DOMAIN db.records
    <3>1. ASSUME x \in DOMAIN db.records PROVE FALSE
      <4>1. Birth(x) \in DOMAIN journal /\ journal[Birth(x)].kind = "created" /\ journal[Birth(x)].id = x
        BY <3>1, BirthIs
      <4> QED BY <1>3, <4>1
    <3> QED BY <3>1
  <2>3. db'.records = Over(Entry(x, [entity |-> e, values |-> p]), db.records)
    <3>1. Apply(db, Len(journal) + 1, v).records =
            Over(Entry(v.id, [entity |-> v.entity, values |-> v.body.values]), db.records)
      BY <1>1, <2>1, CreatedApplied
    <3> QED BY <1>1, <2>1, <3>1
  <2>4. /\ \A c \in Entity : \A z \in Heard(c)' : Steady(c, z) \/ (c = e /\ z = x)
        /\ \A t : Of(t, db.records) \subseteq Of(t, db.records)'
        /\ Values(x)' = p
    BY <2>1, <2>2, <2>3, BirthShape
  <2>5. ASSUME NEW d \in Fields(Decl[e]), IsSerial(d)
        PROVE  NextSerial(e, d, db.records) \in 1..MaxSerial
    <3>1. NextSerial(e, d, db.records) \in 1..(MaxSerial + 1)
      BY NextSerialIs
    <3>2. NextSerial(e, d, db.records) <= MaxSerial
      BY <1>2, <2>5 DEF HasNumbers
    <3> QED BY <3>1, <3>2, BoundAssumption
  <2>6. day \in Years
    BY BoundAssumption DEF CoreInv
  <2>7. ASSUME NEW f, Numbered(x, f)'
        PROVE  f \notin DOMAIN given
    <3>1. /\ journal'[Len(journal) + 1].kind = "created" /\ journal'[Len(journal) + 1].id = x
          /\ journal'[Len(journal) + 1].body.given = DOMAIN given
      BY <1>1, <2>1
    <3>2. /\ Birth(x)' \in DOMAIN journal' /\ journal'[Birth(x)'].kind = "created"
          /\ journal'[Birth(x)'].id = x
      BY <2>1, <3>1 DEF Birth
    <3>3. Birth(x)' = Len(journal) + 1
      BY <2>1, <3>1, <3>2 DEF CoreInv, JournalInv, BornOnce
    <3> QED BY <2>7, <3>1, <3>3 DEF Numbered
  <2>8. ASSUME NEW d \in Fields(Decl[e]), Counted(x, d)'
        PROVE  /\ IsSerial(d) /\ d.name \in DOMAIN p
               /\ p[d.name] = Text(Format(d.format, day, NextSerial(e, d, db.records)))
    <3>1. IsSerial(d) /\ d.name \notin DOMAIN given
      BY <2>7, <2>8 DEF Counted
    <3> QED BY <1>4, <3>1
  <2>9. ASSUME NEW d \in Fields(Decl[e]), Counted(x, d)'
        PROVE  Written(p, d)
    BY <2>5, <2>6, <2>8, <2>9 DEF Written
  <2>10. ASSUME NEW y \in Heard(e) \ {x}
         PROVE  ~Decl[e].singleton /\ Apart(e, p, Values(y))
    <3>1. y \in Of(e, db.records) /\ y \in DOMAIN db.records
      BY DEF Heard, Of
    <3>2. y # NoField
      <4>1. Birth(y) \in DOMAIN journal /\ journal[Birth(y)].kind = "created" /\ journal[Birth(y)].id = y
        BY <3>1, BirthIs
      <4>2. y \in Minted
        BY <4>1 DEF CoreInv, JournalInv, EventFits
      <4> QED BY <4>2, IdAssumption DEF Minted
    <3>3. Values(y) = db.records[y].values
      BY DEF Values
    <3> HIDE DEF Values
    <3>4. Apart(e, p, Values(y))
      BY <1>2, <3>1, <3>2, <3>3, UniqueApart
    <3> QED BY <1>2, <3>1, <3>4
  <2>11. ASSUME NEW y \in Heard(e) \ {x}, NEW d \in Fields(Decl[e]),
                TellsNumbers(d.format), Counted(y, d), Counted(x, d)'
         PROVE  p[d.name] # Values(y)[d.name]
    <3>1. y \in Of(e, db.records)
      BY DEF Heard
    <3>2. PICK z \in Years, k \in 1..MaxSerial :
            d.name \in DOMAIN Values(y) /\ Values(y)[d.name] = Text(Format(d.format, z, k))
      BY <2>11 DEF DistinctInv, Written
    <3>3. k \in ParseSeq(ValueAt(db.records[y].values, d.name), d.format)
      BY <3>2 DEF ParseSeq, ValueAt, Values
    <3>4. k < NextSerial(e, d, db.records)
      BY <3>1, <3>3, NextSerialIs
    <3>5. NextSerial(e, d, db.records) \in 1..MaxSerial
      BY <2>5, <2>8, <2>11
    <3>6. p[d.name] = Text(Format(d.format, day, NextSerial(e, d, db.records)))
      BY <2>8, <2>11
    <3>7. Text(Format(d.format, z, k)) # Text(Format(d.format, day, NextSerial(e, d, db.records)))
      <4>1. k # NextSerial(e, d, db.records)
        BY <3>4, <3>5, BoundAssumption
      <4> QED BY <2>6, <2>11, <3>5, <4>1 DEF TellsNumbers
    <3> QED BY <3>2, <3>6, <3>7
  <2>12. ASSUME x \in Heard(e)'
         PROVE  /\ ~Imported(x)' => RefsExist(Decl[e], Values(x)', db.records, Core)
                /\ \A d \in Fields(Decl[e]) : Counted(x, d)' => Written(Values(x)', d)
                /\ \A y \in Heard(e) \ {x} : ~(Imported(x)' /\ Imported(y)) =>
                     /\ ~Decl[e].singleton
                     /\ Apart(e, Values(x)', Values(y))
                     /\ \A d \in Fields(Decl[e]) :
                          TellsNumbers(d.format) /\ Counted(y, d) /\ Counted(x, d)' =>
                            Values(x)'[d.name] # Values(y)[d.name]
    <3>1. RefsExist(Decl[e], Values(x)', db.records, Core)
      BY <1>2, <2>4
    <3>2. \A d \in Fields(Decl[e]) : Counted(x, d)' => Written(Values(x)', d)
      BY <2>4, <2>9
    <3>3. ASSUME NEW y \in Heard(e) \ {x}
          PROVE  ~Decl[e].singleton /\ Apart(e, Values(x)', Values(y))
      BY <2>4, <2>10
    <3>4. ASSUME NEW y \in Heard(e) \ {x}, NEW d \in Fields(Decl[e]),
                 TellsNumbers(d.format), Counted(y, d), Counted(x, d)'
          PROVE  Values(x)'[d.name] # Values(y)[d.name]
      BY <2>4, <2>11, <3>4
    <3> QED BY <3>1, <3>2, <3>3, <3>4
  <2>13. /\ \A c \in Entity : \A z \in Heard(c)' : Steady(c, z) \/ (c = e /\ z = x)
         /\ \A t : Of(t, db.records) \subseteq Of(t, db.records)'
    BY <2>4
  <2> QED BY ONLY CoreInv, DistinctInv, <2>1, <2>12, <2>13, DistinctKept
<1> QED BY <1>2, <1>5, <1>6 DEF Called

LEMMA DistinctInit == Init => DistinctInv
<1> SUFFICES ASSUME Init PROVE DistinctInv
  OBVIOUS
<1>1. DOMAIN db.records = {}
  BY DEF Init, Nothing
<1> QED BY <1>1 DEF DistinctInv, Heard, Of

LEMMA DistinctStep ==
  ASSUME CoreInv, DistinctInv, [Next]_vars
  PROVE  DistinctInv'
<1>1. CoreInv'
  BY CoreKept
<1>2. CASE UNCHANGED vars
  <2>1. Longer /\ db'.records = db.records
    BY <1>2 DEF Longer, vars
  <2> QED BY <1>1, <2>1, SameRecordsDistinct
<1>3. ASSUME NEW e \in Entity, NEW given, NEW key \in Keys \cup {NoKey}, Create(e, given, key)
      PROVE  DistinctInv'
  BY <1>3, CreateDistinct
<1>4. ASSUME NEW n \in behind, NEW b, Again(n, b)
      PROVE  DistinctInv'
  BY <1>1, <1>4, AgainDistinct
<1>5. ASSUME NEW e \in Entity, NEW id, NEW values, NEW key \in Keys \cup {NoKey},
             Update(e, id, values, key)
      PROVE  DistinctInv'
  BY <1>5, UpdateDistinct
<1>6. ASSUME NEW e \in Entity, NEW id, NEW to, NEW key \in Keys \cup {NoKey}, Move(e, id, to, key)
      PROVE  DistinctInv'
  BY <1>6, MoveDistinct
<1>7. ASSUME NEW e, NEW id, NEW name, NEW other, NEW kind, NEW r, Asks(e, id, name, other, kind, r)
      PROVE  DistinctInv'
  <2>1. PICK v : v = Event(kind, e, id, Asked(r, id, name, other), NoKey)
    OBVIOUS
  <2>2. Called(v) /\ v.kind \in {"linked", "unlinked", "comment"}
    BY <1>7, <2>1 DEF Asks, Event
  <2> QED BY <2>2, OtherDistinct
<1>8. ASSUME NEW e \in Entity, NEW id, NEW internal, Comment(e, id, internal)
      PROVE  DistinctInv'
  <2>1. PICK v : v = Event("comment", e, id, internal, NoKey)
    OBVIOUS
  <2>2. Called(v) /\ v.kind \in {"linked", "unlinked", "comment"}
    BY <1>8, <2>1, CommentCalls DEF Event
  <2> QED BY <2>2, OtherDistinct
<1>9. ASSUME NEW failed, NEW H, Beat(failed, H)
      PROVE  DistinctInv'
  BY <1>1, <1>9, BeatLonger, SameRecordsDistinct
<1>10. CASE NextDay
  <2>1. Longer /\ db'.records = db.records
    BY <1>10 DEF Longer, NextDay
  <2> QED BY <1>1, <2>1, SameRecordsDistinct
<1>11. CASE Restart
  BY <1>1, <1>11, RestartDistinct
<1>12. ASSUME NEW e \in Entity, NEW values \in Imports[e], ImportRecord(e, values)
       PROVE  DistinctInv'
  BY <1>12, ImportDistinct
<1>13. ASSUME NEW n, NEW b, Rewrites(n, b)
       PROVE  DistinctInv'
  BY <1>1, <1>13, RewriteDistinct
<1> QED BY <1>2, <1>3, <1>4, <1>5, <1>6, <1>7, <1>8, <1>9, <1>10, <1>11,
   <1>12, <1>13, CoreStep

(* What Create and Update check of a record against the others is kept by  *)
(* all that happens to the others, and what the kernel numbered reads as a *)
(* number of its own (validate.go, checkUnique; serial.go), among records  *)
(* whose every event was answered and that no repeated call ever wrote; of *)
(* imported records only against those that were not (engine.go).          *)
THEOREM Distinct == Spec => []DistinctInv
BY CoreInit, CoreKept, DistinctInit, DistinctStep, PTL DEF Spec

(* Values are as unique, references as good and numbers as distinct as the *)
(* declarations ask for among the records whose every event was answered   *)
(* and that no repeated call ever wrote as no event says, whatever other   *)
(* calls were lost, repeated, moved or restarted; imported records are not *)
(* held against each other (validate.go, checkUnique; serial.go; records.go;*)
(* engine.go, ImportRecord).                                               *)
THEOREM Unique == Spec => []UniqueAmongHeard
BY Projection, Distinct, DistinctIsUnique, PTL

-----------------------------------------------------------------------------
(* Links.  The journal and what the node was told of only grow, and with   *)
(* them the records of every entity.                                       *)
LEMMA Grows ==
  ASSUME CoreInv, [Next]_vars
  PROVE  Longer /\ Heeded \subseteq Heeded'
<1>1. ASSUME NEW e, Called(e)
      PROVE  Longer /\ Heeded \subseteq Heeded'
  <2>1. Heeded \subseteq Heeded'
    BY <1>1, AppendShape DEF Called
  <2> QED BY <1>1, <2>1, CallLonger
<1>2. ASSUME journal' = journal, behind' \subseteq behind, rewritten \subseteq rewritten'
      PROVE  Longer /\ Heeded \subseteq Heeded'
  BY <1>2 DEF Longer, Heeded
<1>3. ASSUME NEW e \in Entity, NEW given, NEW key \in Keys \cup {NoKey}, Create(e, given, key)
      PROVE  Longer /\ Heeded \subseteq Heeded'
  BY <1>1, <1>3, CreateCalls
<1>4. ASSUME NEW e \in Entity, NEW id, NEW values, NEW key \in Keys \cup {NoKey},
             Update(e, id, values, key)
      PROVE  Longer /\ Heeded \subseteq Heeded'
  BY <1>1, <1>4, UpdateCalls
<1>5. ASSUME NEW e \in Entity, NEW id, NEW to, NEW key \in Keys \cup {NoKey}, Move(e, id, to, key)
      PROVE  Longer /\ Heeded \subseteq Heeded'
  BY <1>1, <1>5, MoveCalls
<1>6. ASSUME NEW e, NEW id, NEW name, NEW other, NEW kind, NEW r, Asks(e, id, name, other, kind, r)
      PROVE  Longer /\ Heeded \subseteq Heeded'
  BY <1>1, <1>6 DEF Asks
<1>7. ASSUME NEW e \in Entity, NEW id, NEW internal, Comment(e, id, internal)
      PROVE  Longer /\ Heeded \subseteq Heeded'
  BY <1>1, <1>7, CommentCalls
<1>8. ASSUME NEW failed, NEW H, Beat(failed, H)
      PROVE  Longer /\ Heeded \subseteq Heeded'
  BY <1>8 DEF Beat, Longer
<1>9. ASSUME NEW n \in behind, NEW b, Again(n, b)
      PROVE  Longer /\ Heeded \subseteq Heeded'
  BY <1>2, <1>9 DEF Again, Marks
<1>11. ASSUME NEW e \in Entity, NEW values \in Imports[e], ImportRecord(e, values)
       PROVE  Longer /\ Heeded \subseteq Heeded'
  BY <1>1, <1>11, ImportCalls
<1>12. ASSUME NEW n, NEW b, Rewrites(n, b)
       PROVE  Longer /\ Heeded \subseteq Heeded'
  BY <1>2, <1>12 DEF Rewrites, Marks
<1>10. CASE NextDay \/ Restart \/ UNCHANGED vars
  BY <1>2, <1>10 DEF NextDay, Restart, vars
<1> QED BY <1>3, <1>4, <1>5, <1>6, <1>7, <1>8, <1>9, <1>10,
   <1>11, <1>12, CoreStep

LEMMA OfGrows ==
  ASSUME CoreInv, CoreInv', Longer, Heeded \subseteq Heeded', NEW t
  PROVE  Of(t, db.records) \subseteq Of(t, db'.records)
<1> SUFFICES ASSUME NEW x \in Of(t, db.records) PROVE x \in Of(t, db'.records)
  OBVIOUS
<1>1. x \in DOMAIN db.records /\ db.records[x].entity = t
  BY DEF Of
<1>2. PICK b \in Born(journal, Heeded) : journal[b].id = x
  BY <1>1 DEF CoreInv, Told, RecordsTold
<1>3. db.records[x].entity = journal[b].entity
  <2>1. LET r == db.records[x] IN r = [entity |-> journal[b].entity, values |-> r.values]
    BY <1>2 DEF CoreInv, Told, RecordsTold
  <2> QED BY <2>1
<1>4. b \in Born(journal', Heeded') /\ journal'[b] = journal[b]
  BY <1>2, CoreFacts DEF Born, Longer
<1>5. RecordsTold(journal', Heeded', db')
  BY DEF CoreInv, Told
<1>6. /\ x \in DOMAIN db'.records
      /\ LET r == db'.records[x] IN r = [entity |-> journal[b].entity, values |-> r.values]
  BY <1>2, <1>4, <1>5 DEF RecordsTold
<1>7. db'.records[x].entity = journal[b].entity
  BY <1>6
<1> QED BY <1>1, <1>3, <1>6, <1>7 DEF Of

LEMMA JoinedStays ==
  ASSUME NEW l, NEW R, NEW S, \A t : Of(t, R) \subseteq Of(t, S), Joined(l, R)
  PROVE  Joined(l, S)
BY DEF Joined

LEMMA NamedIs ==
  ASSUME NEW e, NEW name, NEW r \in Named(e, name)
  PROVE  /\ \E i \in DOMAIN LinkDecls : r.decl = LinkDecls[i]
         /\ r.forward \in BOOLEAN /\ r = [decl |-> r.decl, forward |-> r.forward]
         /\ r.forward => r.decl.from = e /\ r.decl.forward = name
         /\ ~r.forward => e \in {r.decl.from, r.decl.to} /\ r.decl.inverse = name
         /\ r.forward <=> r.decl.from = e /\ r.decl.forward = name
<1>1. PICK i \in DOMAIN LinkDecls : r \in Readings(e, name, LinkDecls[i])
  BY DEF Named
<1>2. r \in [decl : {LinkDecls[i]}, forward : BOOLEAN] /\ r.decl = LinkDecls[i]
  BY <1>1 DEF Readings
<1>3. r.forward \in BOOLEAN /\ r = [decl |-> r.decl, forward |-> r.forward]
  BY <1>2
<1>4. IF r.decl.from = e /\ r.decl.forward = name THEN r.forward
      ELSE ~r.forward /\ e \in {r.decl.from, r.decl.to} /\ r.decl.inverse = name
  BY <1>1, <1>2 DEF Readings
<1> QED BY <1>2, <1>3, <1>4

(* A name is read in one way.                                              *)
LEMMA NamedOne ==
  ASSUME NEW e, NEW name, NEW q \in Named(e, name), NEW r \in Named(e, name)
  PROVE  q = r
<1>1. PICK i \in DOMAIN LinkDecls : /\ \A j \in 1..(i - 1) : Readings(e, name, LinkDecls[j]) = {}
                                    /\ q \in Readings(e, name, LinkDecls[i])
  BY DEF Named
<1>2. PICK k \in DOMAIN LinkDecls : /\ \A j \in 1..(k - 1) : Readings(e, name, LinkDecls[j]) = {}
                                    /\ r \in Readings(e, name, LinkDecls[k])
  BY DEF Named
<1>3. Len(LinkDecls) \in Nat /\ DOMAIN LinkDecls = 1..Len(LinkDecls)
  BY DeclAssumption, SequenceIs
<1>4. i = k
  <2>1. i \notin 1..(k - 1)
    BY <1>1, <1>2
  <2>2. k \notin 1..(i - 1)
    BY <1>1, <1>2
  <2> QED BY <1>3, <2>1, <2>2
<1>5. q.decl = r.decl
  BY <1>1, <1>2, <1>4 DEF Readings
<1>6. /\ q.forward \in BOOLEAN /\ q = [decl |-> q.decl, forward |-> q.forward]
      /\ r.forward \in BOOLEAN /\ r = [decl |-> r.decl, forward |-> r.forward]
      /\ q.forward <=> q.decl.from = e /\ q.decl.forward = name
      /\ r.forward <=> r.decl.from = e /\ r.decl.forward = name
  BY NamedIs
<1>7. q.forward = r.forward
  BY <1>5, <1>6
<1> QED BY <1>5, <1>6, <1>7

(* What is stored of a link was joined, and so was what is removed.        *)
LEMMA AskedJoins ==
  ASSUME CoreInv, LinkInv, NEW e, NEW id, NEW name, NEW other, NEW kind, NEW r,
         Asks(e, id, name, other, kind, r)
  PROVE  Joined(Fact(r, id, other), db.records)
<1> DEFINE l == Fact(r, id, other)
<1>1. PICK i \in DOMAIN LinkDecls : r.decl = LinkDecls[i]
  BY NamedIs DEF Asks
<1>2. CASE kind = "linked"
  BY <1>1, <1>2 DEF Asks, Joined, Fact, Exists
<1>3. CASE kind = "unlinked"
  <2>1. l \in db.links
    BY <1>3 DEF Asks
  <2>2. PICK n \in Heeded : journal[n].kind = "linked" /\ journal[n].body.fact = l
    BY <2>1 DEF CoreInv, Told, LinksTold
  <2>3. n \in DOMAIN journal
    BY CoreFacts
  <2> QED BY <2>2, <2>3 DEF LinkInv
<1> QED BY <1>2, <1>3 DEF Asks

LEMMA LinkStep ==
  ASSUME CoreInv, LinkInv, [Next]_vars
  PROVE  LinkInv'
<1>1. CoreInv' /\ Longer /\ \A t : Of(t, db.records) \subseteq Of(t, db'.records)
  BY CoreKept, Grows, OfGrows
<1>2. ASSUME NEW n \in DOMAIN journal, journal'[n].kind \in {"linked", "unlinked"}
      PROVE  Joined(journal'[n].body.fact, db'.records)
  <2>1. journal'[n] = journal[n]
    BY <1>1 DEF Longer
  <2>2. Joined(journal[n].body.fact, db.records)
    BY <1>2, <2>1 DEF LinkInv
  <2> QED BY <1>1, <2>1, <2>2, JoinedStays
<1> SUFFICES ASSUME NEW n \in DOMAIN journal', n \notin DOMAIN journal,
                    journal'[n].kind \in {"linked", "unlinked"}
             PROVE  Joined(journal'[n].body.fact, db'.records)
  BY <1>2 DEF LinkInv
<1>3. ASSUME NEW e, Called(e)
      PROVE  journal'[n].kind = e.kind /\ journal'[n].body = e.body
  <2>1. DOMAIN journal = 1..Len(journal) /\ Len(journal) \in Nat
    BY CoreFacts
  <2>2. /\ DOMAIN journal' = 1..(Len(journal) + 1)
        /\ journal'[Len(journal) + 1].kind = e.kind /\ journal'[Len(journal) + 1].body = e.body
    BY <1>3, AppendShape DEF Called
  <2>3. n = Len(journal) + 1
    BY <2>1, <2>2
  <2> QED BY <2>2, <2>3
<1>4. ASSUME NEW e \in Entity, NEW given, NEW key \in Keys \cup {NoKey}, Create(e, given, key)
      PROVE  FALSE
  <2>1. PICK v : v = Event("created", e, FreshId, Body(Prepared(e, given), given), key)
    OBVIOUS
  <2>2. Called(v) /\ v.kind = "created"
    BY <1>4, <2>1, CreateCalls DEF Event
  <2> QED BY <1>3, <2>2
<1>5. ASSUME NEW e \in Entity, NEW id, NEW values, NEW key \in Keys \cup {NoKey},
             Update(e, id, values, key)
      PROVE  FALSE
  <2>1. PICK v : v = Event("updated", e, id, Changed(id, values), key)
    OBVIOUS
  <2>2. Called(v) /\ v.kind = "updated"
    BY <1>5, <2>1, UpdateCalls DEF Event
  <2> QED BY <1>3, <2>2
<1>11. ASSUME NEW e \in Entity, NEW values \in Imports[e], ImportRecord(e, values)
       PROVE  FALSE
  <2>1. PICK v : v = ImportEvent(e, values)
    OBVIOUS
  <2>2. Called(v) /\ v.kind = "created"
    BY <1>11, <2>1, ImportCalls DEF ImportEvent, Event
  <2> QED BY <1>3, <2>2
<1>6. ASSUME NEW e \in Entity, NEW id, NEW to, NEW key \in Keys \cup {NoKey}, Move(e, id, to, key)
      PROVE  FALSE
  <2>1. PICK v : v = Event("moved", e, id, Text(to), key)
    OBVIOUS
  <2>2. Called(v) /\ v.kind = "moved"
    BY <1>6, <2>1, MoveCalls DEF Event
  <2> QED BY <1>3, <2>2
<1>7. ASSUME NEW e, NEW id, NEW name, NEW other, NEW kind, NEW r, Asks(e, id, name, other, kind, r)
      PROVE  Joined(journal'[n].body.fact, db'.records)
  <2>1. PICK v : v = Event(kind, e, id, Asked(r, id, name, other), NoKey)
    OBVIOUS
  <2>2. Called(v) /\ v.body.fact = Fact(r, id, other)
    BY <1>7, <2>1 DEF Asks, Event, Asked
  <2>3. journal'[n].body.fact = Fact(r, id, other)
    BY <1>3, <2>2
  <2> QED BY <1>1, <1>7, <2>3, AskedJoins, JoinedStays
<1>8. ASSUME NEW e \in Entity, NEW id, NEW internal, Comment(e, id, internal)
      PROVE  FALSE
  <2>1. PICK v : v = Event("comment", e, id, internal, NoKey)
    OBVIOUS
  <2>2. Called(v) /\ v.kind = "comment"
    BY <1>8, <2>1, CommentCalls DEF Event
  <2> QED BY <1>3, <2>2
<1>9. ASSUME NEW failed, NEW H, Beat(failed, H)
      PROVE  FALSE
  BY <1>9, BeatGrows
<1>10. ASSUME journal' = journal PROVE FALSE
  BY <1>10
<1> QED BY <1>4, <1>5, <1>6, <1>7, <1>8, <1>9, <1>10, <1>11, CoreStep
   DEF Again, Rewrites, NextDay, Restart, vars

LEMMA LinkInit == Init => LinkInv
<1> SUFFICES ASSUME Init PROVE LinkInv
  OBVIOUS
<1>1. DOMAIN journal = {}
  BY DEF Init
<1> QED BY <1>1 DEF LinkInv

(* The declaration a stored link is read under.                            *)
First(l) ==
  LinkDecls[CHOOSE i \in DOMAIN LinkDecls :
              LinkDecls[i].forward = l.link /\ \A j \in 1..(i - 1) : LinkDecls[j].forward # l.link]

LEMMA FirstIs ==
  ASSUME NEW l, NEW i \in DOMAIN LinkDecls, LinkDecls[i].forward = l.link
  PROVE  \E k \in DOMAIN LinkDecls : First(l) = LinkDecls[k] /\ LinkDecls[k].forward = l.link
<1> DEFINE S == {k \in DOMAIN LinkDecls : LinkDecls[k].forward = l.link}
           P(k) == LinkDecls[k].forward = l.link /\ \A j \in 1..(k - 1) : LinkDecls[j].forward # l.link
<1>1. Len(LinkDecls) \in Nat /\ DOMAIN LinkDecls = 1..Len(LinkDecls)
  BY DeclAssumption, SequenceIs
<1>2. S \in SUBSET Nat /\ S # {}
  BY <1>1
<1>3. PICK k \in S : \A y \in S : k <= y
  <2> HIDE DEF S
  <2> QED BY <1>2, LeastNumber
<1>4. \A j \in 1..(k - 1) : LinkDecls[j].forward # l.link
  <2> SUFFICES ASSUME NEW j \in 1..(k - 1), LinkDecls[j].forward = l.link PROVE FALSE
    OBVIOUS
  <2>1. j \in S
    BY <1>1
  <2> QED BY <1>1, <1>3, <2>1
<1>5. k \in DOMAIN LinkDecls /\ P(k)
  BY <1>4
<1>6. First(l) = LinkDecls[CHOOSE m \in DOMAIN LinkDecls : P(m)]
  BY DEF First
<1>7. (CHOOSE m \in DOMAIN LinkDecls : P(m)) \in DOMAIN LinkDecls /\ P(CHOOSE m \in DOMAIN LinkDecls : P(m))
  <2> HIDE DEF P
  <2> QED BY <1>5
<1> QED BY <1>6, <1>7

(* A link is seen from its From side, or else from its To side.            *)
Shown(l, e, id, name, other) ==
  LET D == First(l)
  IN  \/ /\ D.from = e /\ l.from = id /\ Exists(D.to, l.to)
         /\ name = D.forward /\ other = l.to
      \/ /\ ~(D.from = e /\ l.from = id) /\ D.to = e /\ l.to = id /\ Exists(D.from, l.from)
         /\ name = D.inverse /\ other = l.from

LEMMA LinksOfIs ==
  ASSUME NEW e, NEW id, NEW name, NEW other
  PROVE  [name |-> name, id |-> other] \in LinksOf(e, id)
           <=> \E l \in db.links : Shown(l, e, id, name, other)
<1> DEFINE from == {l \in db.links : First(l).from = e /\ l.from = id}
           to == {l \in db.links \ from : First(l).to = e /\ l.to = id}
           A == {[name |-> First(l).forward, id |-> l.to] : l \in {l \in from : Exists(First(l).to, l.to)}}
           B == {[name |-> First(l).inverse, id |-> l.from] : l \in {l \in to : Exists(First(l).from, l.from)}}
           x == [name |-> name, id |-> other]
<1>1. LinksOf(e, id) = A \cup B
  BY DEF LinksOf, First
<1>2. x \in A <=> \E l \in from : Exists(First(l).to, l.to) /\ name = First(l).forward /\ other = l.to
  <2>1. ASSUME x \in A
        PROVE  \E l \in from : Exists(First(l).to, l.to) /\ name = First(l).forward /\ other = l.to
    <3>1. PICK l \in from : Exists(First(l).to, l.to) /\ x = [name |-> First(l).forward, id |-> l.to]
      BY <2>1
    <3>2. x.name = First(l).forward /\ x.id = l.to
      BY <3>1
    <3> QED BY <3>1, <3>2
  <2> QED BY <2>1
<1>3. x \in B <=> \E l \in to : Exists(First(l).from, l.from) /\ name = First(l).inverse /\ other = l.from
  <2>1. ASSUME x \in B
        PROVE  \E l \in to : Exists(First(l).from, l.from) /\ name = First(l).inverse /\ other = l.from
    <3>1. PICK l \in to : Exists(First(l).from, l.from) /\ x = [name |-> First(l).inverse, id |-> l.from]
      BY <2>1
    <3>2. x.name = First(l).inverse /\ x.id = l.from
      BY <3>1
    <3> QED BY <3>1, <3>2
  <2> QED BY <2>1
<1> HIDE DEF A, B, x
<1>4. x \in LinksOf(e, id) <=> \E l \in db.links : Shown(l, e, id, name, other)
  BY <1>1, <1>2, <1>3 DEF Shown
<1> QED BY <1>4 DEF x

(* A stored link is one that was asked for, of a declaration.              *)
LEMMA StoredIs ==
  ASSUME CoreInv, LinkInv, NEW l \in db.links
  PROVE  /\ l = [link |-> l.link, from |-> l.from, to |-> l.to]
         /\ \E k \in DOMAIN LinkDecls : First(l) = LinkDecls[k] /\ LinkDecls[k].forward = l.link
<1>1. PICK n \in Heeded : journal[n].kind = "linked" /\ journal[n].body.fact = l
  BY DEF CoreInv, Told, LinksTold
<1>2. n \in DOMAIN journal /\ EventFits(journal[n]) /\ Joined(l, db.records)
  BY <1>1, CoreFacts DEF LinkInv, CoreInv, JournalInv
<1>3. PICK r, id, name, other : journal[n].body = Asked(r, id, name, other)
  BY <1>1, <1>2 DEF EventFits
<1>4. l = Fact(r, id, other)
  BY <1>1, <1>3 DEF Asked
<1>5. l = [link |-> l.link, from |-> l.from, to |-> l.to]
  BY <1>4 DEF Fact
<1> QED BY <1>2, <1>5, FirstIs DEF Joined

(* The last event told of a link decides whether it is stored.             *)
LEMMA LastDecides ==
  ASSUME CoreInv, NEW n \in Heeded, journal[n].kind \in {"linked", "unlinked"},
         \A m \in Heeded : m > n /\ journal[m].kind \in {"linked", "unlinked"} =>
           journal[m].body.fact # journal[n].body.fact
  PROVE  journal[n].body.fact \in db.links <=> journal[n].kind = "linked"
<1> DEFINE l == journal[n].body.fact
<1>1. l \in db.links <=>
        \E k \in Heeded : /\ journal[k].kind = "linked" /\ journal[k].body.fact = l
                          /\ \A m \in Heeded : m > k /\ journal[m].kind = "unlinked" => journal[m].body.fact # l
  BY DEF CoreInv, Told, LinksTold
<1>2. Heeded \in SUBSET Nat
  BY CoreFacts
<1>3. journal[n].kind = "linked" => l \in db.links
  BY <1>1
<1>4. ASSUME l \in db.links PROVE journal[n].kind = "linked"
  <2>1. PICK k \in Heeded :
          /\ journal[k].kind = "linked" /\ journal[k].body.fact = l
          /\ \A m \in Heeded : m > k /\ journal[m].kind = "unlinked" => journal[m].body.fact # l
    BY <1>1, <1>4
  <2>2. ~(k > n)
    BY <2>1
  <2>3. CASE k = n
    BY <2>1, <2>3
  <2>4. CASE n > k
    BY <2>1, <2>4
  <2> QED BY <1>2, <2>2, <2>3, <2>4
<1> QED BY <1>3, <1>4

(* A fact, the declaration it is of, and the side it is asked from.        *)
LEMMA FactIs ==
  ASSUME CoreInv, NEW e, NEW id, NEW name, NEW other, NEW r \in Named(e, name), NEW l,
         l = Fact(r, id, other), Joined(l, db.records), Exists(e, id),
         \A i \in DOMAIN LinkDecls : LinkDecls[i].forward = r.decl.forward => LinkDecls[i] = r.decl
  PROVE  /\ \E i \in DOMAIN LinkDecls : r.decl = LinkDecls[i]
         /\ First(l) = r.decl /\ l.link = r.decl.forward
         /\ Exists(r.decl.from, l.from) /\ Exists(r.decl.to, l.to)
         /\ l = [link |-> l.link, from |-> l.from, to |-> l.to]
         /\ r.forward => /\ l.from = id /\ l.to = other
                         /\ r.decl.from = e /\ r.decl.forward = name
         /\ ~r.forward => /\ l.from = other /\ l.to = id
                          /\ r.decl.to = e /\ r.decl.inverse = name
<1> DEFINE D == r.decl
<1>1. /\ \E i \in DOMAIN LinkDecls : D = LinkDecls[i]
      /\ r.forward => D.from = e /\ D.forward = name
      /\ ~r.forward => e \in {D.from, D.to} /\ D.inverse = name
  BY NamedIs
<1>2. /\ l.link = D.forward /\ l = [link |-> l.link, from |-> l.from, to |-> l.to]
      /\ r.forward => l.from = id /\ l.to = other
      /\ ~r.forward => l.from = other /\ l.to = id
  BY DEF Fact
<1>3. PICK i \in DOMAIN LinkDecls :
        /\ LinkDecls[i].forward = l.link
        /\ l.from \in Of(LinkDecls[i].from, db.records) /\ l.to \in Of(LinkDecls[i].to, db.records)
  BY DEF Joined
<1>4. LinkDecls[i] = D
  BY <1>2, <1>3
<1>5. Exists(D.from, l.from) /\ Exists(D.to, l.to)
  BY <1>3, <1>4 DEF Exists
<1>6. First(l) = D
  <2>1. PICK k \in DOMAIN LinkDecls : First(l) = LinkDecls[k] /\ LinkDecls[k].forward = l.link
    BY <1>3, FirstIs
  <2> QED BY <1>2, <2>1
<1>7. ~r.forward => D.to = e
  BY <1>2, <1>5 DEF Exists, Of
<1> QED BY <1>1, <1>2, <1>5, <1>6, <1>7

LEMMA SeenFromBoth ==
  ASSUME NEW e, NEW id, NEW name, NEW other, NEW r, NEW l \in db.links,
         id # other, First(l) = r.decl,
         Exists(r.decl.from, l.from), Exists(r.decl.to, l.to),
         r.forward => /\ l.from = id /\ l.to = other
                      /\ r.decl.from = e /\ r.decl.forward = name,
         ~r.forward => /\ l.from = other /\ l.to = id
                       /\ r.decl.to = e /\ r.decl.inverse = name
  PROVE  /\ Shown(l, e, id, name, other)
         /\ r.forward => Shown(l, r.decl.to, other, r.decl.inverse, id)
         /\ ~r.forward => Shown(l, r.decl.from, other, r.decl.forward, id)
BY DEF Shown

(* What shows a link under one of its names is that link, or its mirror.   *)
LEMMA SeenIsStored ==
  ASSUME NEW e, NEW id, NEW name, NEW other, NEW r, NEW l,
         NEW i \in DOMAIN LinkDecls, r.decl = LinkDecls[i],
         l.link = r.decl.forward, l = [link |-> l.link, from |-> l.from, to |-> l.to],
         r.forward => /\ l.from = id /\ l.to = other
                      /\ r.decl.from = e /\ r.decl.forward = name,
         ~r.forward => /\ l.from = other /\ l.to = id
                       /\ r.decl.to = e /\ r.decl.inverse = name,
         NEW m, m = [link |-> m.link, from |-> m.from, to |-> m.to],
         NEW k \in DOMAIN LinkDecls, First(m) = LinkDecls[k], LinkDecls[k].forward = m.link,
         \/ Shown(m, e, id, name, other)
         \/ r.forward /\ Shown(m, r.decl.to, other, r.decl.inverse, id)
         \/ ~r.forward /\ Shown(m, r.decl.from, other, r.decl.forward, id)
  PROVE  m = l \/ (r.decl.from = r.decl.to /\ r.decl.forward = r.decl.inverse)
<1> DEFINE D == LinkDecls[i]
           K == LinkDecls[k]
<1>1. /\ D.from = K.from /\ D.forward = K.forward => i = k
      /\ D.to = K.to /\ D.inverse = K.inverse => i = k
      /\ D.from = K.to /\ D.forward = K.inverse => i = k
      /\ K.from = D.to /\ K.forward = D.inverse => i = k
  BY DeclAssumption
<1>2. \/ K.from = D.from /\ K.forward = D.forward /\ m.from = l.from /\ m.to = l.to
      \/ K.to = D.to /\ K.inverse = D.inverse /\ m.from = l.from /\ m.to = l.to
      \/ K.from = D.to /\ K.forward = D.inverse
      \/ D.from = K.to /\ D.forward = K.inverse
  <2>1. CASE r.forward
    BY <2>1 DEF Shown
  <2>2. CASE ~r.forward
    BY <2>2 DEF Shown
  <2> QED BY <2>1, <2>2
<1>3. i = k
  BY <1>1, <1>2
<1>4. ASSUME m.from = l.from, m.to = l.to
      PROVE  m = l
  <2>1. m.link = l.link
    BY <1>3
  <2> QED BY <1>4, <2>1
<1>5. ASSUME \/ K.from = D.to /\ K.forward = D.inverse
             \/ D.from = K.to /\ D.forward = K.inverse
      PROVE  r.decl.from = r.decl.to /\ r.decl.forward = r.decl.inverse
  BY <1>3, <1>5
<1> QED BY <1>2, <1>4, <1>5

LEMMA LinksAreRead == CoreInv /\ LinkInv => LinksReadBack
<1> SUFFICES ASSUME CoreInv, LinkInv, NEW n \in DOMAIN journal
             PROVE  LET e == journal[n]
                        told(m) == m \notin behind /\ journal[m].kind \in {"linked", "unlinked"}
                        last == told(n) /\ \A m \in (n + 1)..Len(journal) :
                                             told(m) => journal[m].body.fact # e.body.fact
                        r == CHOOSE r \in Named(e.entity, e.body.name) : TRUE
                        own == \A i \in DOMAIN LinkDecls :
                                 LinkDecls[i].forward = r.decl.forward => LinkDecls[i] = r.decl
                        mirrored == r.decl.from = r.decl.to /\ r.decl.forward = r.decl.inverse
                        there == IF r.forward THEN r.decl.to ELSE r.decl.from
                        back == IF r.forward THEN r.decl.inverse ELSE r.decl.forward
                        here == [name |-> e.body.name, id |-> e.body.other] \in LinksOf(e.entity, e.id)
                        beyond == [name |-> back, id |-> e.id] \in LinksOf(there, e.body.other)
                    IN  last /\ own /\ Exists(e.entity, e.id) /\ e.id # e.body.other =>
                          IF e.kind = "linked" THEN here /\ beyond ELSE mirrored \/ ~(here \/ beyond)
  BY DEF LinksReadBack
<1> DEFINE told(m) == m \notin behind /\ journal[m].kind \in {"linked", "unlinked"}
           E == journal[n].entity
           x == journal[n].id
           name == journal[n].body.name
           other == journal[n].body.other
           l == journal[n].body.fact
           r == CHOOSE r \in Named(E, name) : TRUE
           mirrored == r.decl.from = r.decl.to /\ r.decl.forward = r.decl.inverse
           there == IF r.forward THEN r.decl.to ELSE r.decl.from
           back == IF r.forward THEN r.decl.inverse ELSE r.decl.forward
           here == [name |-> name, id |-> other] \in LinksOf(E, x)
           beyond == [name |-> back, id |-> x] \in LinksOf(there, other)
<1> SUFFICES ASSUME told(n), \A m \in (n + 1)..Len(journal) : told(m) => journal[m].body.fact # l,
                    \A i \in DOMAIN LinkDecls :
                      LinkDecls[i].forward = r.decl.forward => LinkDecls[i] = r.decl,
                    Exists(E, x), x # other
             PROVE  IF journal[n].kind = "linked" THEN here /\ beyond ELSE mirrored \/ ~(here \/ beyond)
  OBVIOUS
<1>1. /\ n \in Heeded /\ DOMAIN journal = 1..Len(journal) /\ Len(journal) \in Nat
      /\ Heeded \subseteq DOMAIN journal /\ EventFits(journal[n])
  BY CoreFacts DEF Heeded, CoreInv, JournalInv
<1>2. PICK q \in Named(E, name) : journal[n].body = Asked(q, x, name, other)
  BY <1>1 DEF EventFits
<1>3. q = r /\ r \in Named(E, name)
  <2>1. r \in Named(E, name)
    BY <1>2
  <2> HIDE DEF r, E, name
  <2> QED BY <1>2, <2>1, NamedOne
<1>4. l = Fact(r, x, other)
  BY <1>2, <1>3 DEF Asked
<1>5. Joined(l, db.records)
  BY DEF LinkInv
<1>6. \A m \in Heeded : m > n /\ journal[m].kind \in {"linked", "unlinked"} => journal[m].body.fact # l
  BY <1>1 DEF Heeded
<1>7. l \in db.links <=> journal[n].kind = "linked"
  BY <1>1, <1>6, LastDecides
<1>8. journal[n].kind \in {"linked", "unlinked"}
  OBVIOUS
<1> HIDE DEF r, E, x, name, other, l, told
<1>9. /\ \E i \in DOMAIN LinkDecls : r.decl = LinkDecls[i]
      /\ First(l) = r.decl /\ l.link = r.decl.forward
      /\ Exists(r.decl.from, l.from) /\ Exists(r.decl.to, l.to)
      /\ l = [link |-> l.link, from |-> l.from, to |-> l.to]
      /\ r.forward => /\ l.from = x /\ l.to = other
                      /\ r.decl.from = E /\ r.decl.forward = name
      /\ ~r.forward => /\ l.from = other /\ l.to = x
                       /\ r.decl.to = E /\ r.decl.inverse = name
  BY <1>3, <1>4, <1>5, FactIs
<1>10. /\ here <=> \E m \in db.links : Shown(m, E, x, name, other)
       /\ beyond <=> \E m \in db.links : Shown(m, there, other, back, x)
  BY LinksOfIs
<1>11. CASE journal[n].kind = "linked"
  <2>1. /\ Shown(l, E, x, name, other)
        /\ r.forward => Shown(l, r.decl.to, other, r.decl.inverse, x)
        /\ ~r.forward => Shown(l, r.decl.from, other, r.decl.forward, x)
    BY <1>7, <1>9, <1>11, SeenFromBoth
  <2> QED BY <1>7, <1>10, <1>11, <2>1
<1>12. CASE journal[n].kind = "unlinked" /\ (here \/ beyond)
  <2>1. PICK m \in db.links :
          \/ Shown(m, E, x, name, other)
          \/ r.forward /\ Shown(m, r.decl.to, other, r.decl.inverse, x)
          \/ ~r.forward /\ Shown(m, r.decl.from, other, r.decl.forward, x)
    BY <1>10, <1>12
  <2>2. m = [link |-> m.link, from |-> m.from, to |-> m.to]
    BY StoredIs
  <2>3. PICK k \in DOMAIN LinkDecls : First(m) = LinkDecls[k] /\ LinkDecls[k].forward = m.link
    BY StoredIs
  <2>4. PICK i \in DOMAIN LinkDecls : r.decl = LinkDecls[i]
    BY <1>9
  <2>5. m = l \/ (r.decl.from = r.decl.to /\ r.decl.forward = r.decl.inverse)
    <3>1. /\ l.link = r.decl.forward /\ l = [link |-> l.link, from |-> l.from, to |-> l.to]
          /\ r.forward => /\ l.from = x /\ l.to = other
                          /\ r.decl.from = E /\ r.decl.forward = name
          /\ ~r.forward => /\ l.from = other /\ l.to = x
                           /\ r.decl.to = E /\ r.decl.inverse = name
      BY <1>9
    <3> QED BY ONLY <2>1, <2>2, <2>3, <2>4, <3>1, SeenIsStored
  <2> QED BY <1>7, <1>12, <2>5
<1> QED BY <1>8, <1>11, <1>12

(* Whatever was linked or unlinked names two records that are there, of    *)
(* the entities of a declaration of its name (links.go, Link, Unlink).     *)
THEOREM Linked == Spec => []LinkInv
BY CoreInit, CoreKept, LinkInit, LinkStep, PTL DEF Spec

(* A link that was answered is seen by both records under their names until*)
(* it is removed, and then by neither (links.go, Link, Unlink, LinksOf).   *)
THEOREM LinksRead == Spec => []LinksReadBack
BY Projection, Linked, LinksAreRead, PTL

-----------------------------------------------------------------------------
(* Tasks of the rules.  First, where a moved record is.                    *)
LEMMA StateInit == Init => StateInv
<1> SUFFICES ASSUME Init PROVE StateInv
  OBVIOUS
<1>1. DOMAIN db.records = {}
  BY DEF Init, Nothing
<1> QED BY <1>1 DEF StateInv

LEMMA SinceIs ==
  ASSUME CoreInv, NEW x \in DOMAIN db.records
  PROVE  /\ x \in DOMAIN db.since /\ db.since[x] \in Heeded /\ db.since[x] \in DOMAIN journal
         /\ db.since[x] \in Nat /\ Enters(journal[db.since[x]], x)
<1>1. SinceTold(journal, Heeded, db)
  BY DEF CoreInv, Told
<1> QED BY <1>1, CoreFacts DEF SinceTold

(* The clock of a record tells of its last move, but where a repeated call *)
(* wrote.                                                                  *)
LEMMA SinceIsLast ==
  ASSUME CoreInv, NEW x \in DOMAIN db.records, x \notin rewritten
  PROVE  \A m \in Heeded : Enters(journal[m], x) => m <= db.since[x]
<1>1. PICK b \in Born(journal, Heeded) : journal[b].id = x
  BY DEF CoreInv, Told, RecordsTold
<1>2. AsTold(journal, Heeded, db, x)
  BY <1>1 DEF CoreInv, ValuesInv
<1> QED BY <1>2 DEF AsTold, SinceLast

LEMMA BehindIs ==
  ASSUME CoreInv, CoreInv', Longer, Heeded \subseteq Heeded', NEW q \in behind'
  PROVE  q \in DOMAIN journal' /\ (q \in DOMAIN journal => q \in behind /\ journal'[q] = journal[q])
<1>1. q \in DOMAIN journal' /\ q \notin Heeded'
  BY DEF CoreInv, Lost, Heeded
<1>2. q \in DOMAIN journal => q \in behind
  BY <1>1 DEF Heeded
<1> QED BY <1>1, <1>2 DEF Longer

LEMMA StateKept ==
  ASSUME CoreInv, CoreInv', StateInv, Longer, Heeded \subseteq Heeded',
         NEW x \in DOMAIN db.records, x \notin rewritten,
         db'.records[x].entity = db.records[x].entity,
         db'.since[x] = db.since[x],
         NEW field, field = StateField[db.records[x].entity],
         field \in DOMAIN db.records[x].values => field \in DOMAIN db'.records[x].values,
         ValueAt(db'.records[x].values, field) = ValueAt(db.records[x].values, field),
         \A q \in DOMAIN journal' \ DOMAIN journal : journal'[q].kind # "moved" \/ journal'[q].id # x
  PROVE  StateAt(x)'
<1> DEFINE s == db.since[x]
           v == db.records[x].values
           w == db'.records[x].values
<1>1. s \in DOMAIN journal /\ journal'[s] = journal[s]
  BY SinceIs DEF Longer
<1>2. StateAt(x)
  BY DEF StateInv
<1>3. journal'[s].kind = "moved" => field \in DOMAIN w /\ w[field] = journal'[s].body
  <2> SUFFICES ASSUME journal'[s].kind = "moved"
               PROVE  field \in DOMAIN w /\ w[field] = journal'[s].body
    OBVIOUS
  <2>1. field \in DOMAIN v /\ v[field] = journal[s].body
    BY <1>1, <1>2 DEF StateAt
  <2> QED BY <1>1, <2>1 DEF ValueAt
<1>4. ASSUME NEW q \in behind', journal'[q].kind = "moved", journal'[q].id = x, q > s
      PROVE  journal'[q].body # ValueAt(w, field)
  <2>1. q \in behind /\ journal'[q] = journal[q]
    BY <1>4, BehindIs
  <2> QED BY <1>2, <1>4, <2>1 DEF StateAt
<1> QED BY <1>3, <1>4 DEF StateAt

(* A step that leaves the records and their clocks alone, and moves none.  *)
LEMMA StillState ==
  ASSUME CoreInv, CoreInv', StateInv, Longer, Heeded \subseteq Heeded',
         db'.records = db.records, db'.since = db.since,
         \A q \in DOMAIN journal' \ DOMAIN journal : journal'[q].kind # "moved"
  PROVE  StateInv'
<1> SUFFICES ASSUME NEW x \in DOMAIN db.records \ rewritten' PROVE StateAt(x)'
  BY DEF StateInv
<1>1. PICK field : field = StateField[db.records[x].entity]
  OBVIOUS
<1>2. x \notin rewritten
  BY DEF Longer
<1> QED BY <1>1, <1>2, StateKept

(* A call that was answered, and what it left of the clocks.               *)
LEMMA CallGrows ==
  ASSUME CoreInv, NEW e, Called(e)
  PROVE  /\ Longer /\ CoreInv' /\ Heeded \subseteq Heeded' /\ IsProjection(db) /\ IsMap(db.records)
         /\ DOMAIN journal' \ DOMAIN journal = {Len(journal) + 1} /\ Len(journal) + 1 \in DOMAIN journal'
         /\ \A q \in DOMAIN journal' : q <= Len(journal) + 1
         /\ journal'[Len(journal) + 1].kind = e.kind /\ journal'[Len(journal) + 1].id = e.id
         /\ journal'[Len(journal) + 1].body = e.body
         /\ LostStep(e) => db' = db
         /\ HeardStep(e) => /\ db'.records = Apply(db, Len(journal) + 1, e).records
                            /\ db'.since = Apply(db, Len(journal) + 1, e).since
<1>1. Longer /\ CoreInv' /\ (LostStep(e) => db' = db)
      /\ (HeardStep(e) => db'.records = Apply(db, Len(journal) + 1, e).records)
      /\ IsProjection(db) /\ IsMap(db.records)
  BY CallLonger DEF CoreInv, Told, RecordsTold
<1>2. /\ DOMAIN journal = 1..Len(journal) /\ Len(journal) \in Nat
      /\ DOMAIN journal' = 1..(Len(journal) + 1) /\ Heeded \subseteq Heeded'
      /\ journal'[Len(journal) + 1].kind = e.kind /\ journal'[Len(journal) + 1].id = e.id
      /\ journal'[Len(journal) + 1].body = e.body
  BY CoreFacts, AppendShape DEF Called
<1>3. DOMAIN journal' \ DOMAIN journal = {Len(journal) + 1} /\ Len(journal) + 1 \in DOMAIN journal'
      /\ \A q \in DOMAIN journal' : q <= Len(journal) + 1
  BY <1>2
<1>4. ASSUME HeardStep(e) PROVE db'.since = Apply(db, Len(journal) + 1, e).since
  <2>1. db' = Project(db, Len(journal) + 1, e)
    BY <1>4 DEF HeardStep
  <2>2. CASE e.kind = "comment"
    BY <1>1, <2>1, <2>2, CommentProjected, CommentApplied
  <2>3. CASE e.kind # "comment"
    BY <2>1, <2>3 DEF Project
  <2> QED BY <2>2, <2>3
<1> QED BY <1>1, <1>2, <1>3, <1>4

LEMMA OtherState ==
  ASSUME CoreInv, StateInv, NEW e, Called(e),
         (LostStep(e) /\ e.kind # "moved") \/ e.kind \in {"linked", "unlinked", "comment"}
  PROVE  StateInv'
<1>1. db'.records = db.records /\ db'.since = db.since
  <2>1. CASE LostStep(e)
    BY <2>1, CallGrows
  <2>2. CASE HeardStep(e) /\ e.kind = "linked"
    BY <2>2, CallGrows, LinkedApplied
  <2>3. CASE HeardStep(e) /\ e.kind = "unlinked"
    BY <2>3, CallGrows, UnlinkedApplied
  <2>4. CASE HeardStep(e) /\ e.kind = "comment"
    BY <2>4, CallGrows, CommentApplied
  <2> QED BY <2>1, <2>2, <2>3, <2>4 DEF Called
<1> QED BY <1>1, CallGrows, StillState

(* A birth, by a new event or by one the node had not been told of.        *)
LEMMA BornState ==
  ASSUME CoreInv, CoreInv', StateInv, Longer, Heeded \subseteq Heeded',
         NEW x, NEW c, NEW v, NEW n, x \notin DOMAIN db.records,
         db'.records = Over(Entry(x, [entity |-> c, values |-> v]), db.records),
         db'.since = Over(Entry(x, n), db.since),
         \A q \in DOMAIN journal' \ DOMAIN journal : journal'[q].kind # "moved",
         journal'[n].kind = "created",
         \A q \in DOMAIN journal' : ~(journal'[q].kind = "moved" /\ journal'[q].id = x)
  PROVE  StateInv'
<1> SUFFICES ASSUME NEW y \in DOMAIN db'.records \ rewritten' PROVE StateAt(y)'
  BY DEF StateInv
<1>1. CASE y = x
  <2>1. db'.since[x] = n
    BY DEF Over, Entry
  <2>2. \A q \in behind' : q \in DOMAIN journal'
    BY BehindIs
  <2> QED BY <1>1, <2>1, <2>2 DEF StateAt
<1>2. CASE y # x
  <2>1. y \in DOMAIN db.records
    BY <1>2 DEF Over, Entry
  <2>2. y \in DOMAIN db.since
    BY <2>1, SinceIs
  <2>3. db'.records[y] = db.records[y] /\ db'.since[y] = db.since[y]
    BY <1>2, <2>1, <2>2 DEF Over, Entry
  <2>4. PICK field : field = StateField[db.records[y].entity]
    OBVIOUS
  <2>5. y \notin rewritten
    BY DEF Longer
  <2> QED BY <2>1, <2>3, <2>4, <2>5, StateKept
<1> QED BY <1>1, <1>2

(* A birth that was answered.                                              *)
LEMMA BirthState ==
  ASSUME CoreInv, StateInv, NEW v, Called(v), HeardStep(v), v.kind = "created"
  PROVE  StateInv'
<1>1. PICK x : x = v.id
  OBVIOUS
<1>2. PICK n : n = Len(journal) + 1
  OBVIOUS
<1>3. x = FreshId /\ Count("created") < Len(Ids)
  BY <1>1 DEF Called, NewFits
<1>4. \A m \in DOMAIN journal : journal[m].kind = "created" => journal[m].id # x
  BY <1>3, FreshIdIs
<1>5. /\ Longer /\ CoreInv' /\ Heeded \subseteq Heeded' /\ IsProjection(db)
      /\ \A q \in DOMAIN journal' \ DOMAIN journal : q = n
      /\ journal'[n].kind = "created" /\ journal'[n].id = x /\ n \in DOMAIN journal'
      /\ db'.records = Apply(db, n, v).records /\ db'.since = Apply(db, n, v).since
  BY <1>1, <1>2, CallGrows
<1>6. PICK c, w : c = v.entity /\ w = v.body.values
  OBVIOUS
<1>7. /\ db'.records = Over(Entry(x, [entity |-> c, values |-> w]), db.records)
      /\ db'.since = Over(Entry(x, n), db.since)
  BY <1>1, <1>5, <1>6, CreatedApplied
<1>8. x \notin DOMAIN db.records
  <2> SUFFICES ASSUME x \in DOMAIN db.records PROVE FALSE
    OBVIOUS
  <2>1. Birth(x) \in DOMAIN journal /\ journal[Birth(x)].kind = "created" /\ journal[Birth(x)].id = x
    BY BirthIs
  <2> QED BY <1>4, <2>1
<1>9. ASSUME NEW q \in DOMAIN journal', journal'[q].kind = "moved", journal'[q].id = x
      PROVE  FALSE
  <2>1. q \in DOMAIN journal /\ journal'[q] = journal[q]
    BY <1>5, <1>9 DEF Longer
  <2>2. PICK b \in Born(journal, Heeded) : journal[b].id = x
    BY <1>9, <2>1 DEF CoreInv, Known
  <2>3. b \in DOMAIN journal /\ journal[b].kind = "created"
    BY <2>2, CoreFacts DEF Born
  <2> QED BY <1>4, <2>2, <2>3
<1>10. \A q \in DOMAIN journal' \ DOMAIN journal : journal'[q].kind # "moved"
  BY <1>5
<1> QED BY <1>5, <1>7, <1>8, <1>9, <1>10, BornState

LEMMA CreateState ==
  ASSUME CoreInv, StateInv, NEW e \in Entity, NEW given, NEW key \in Keys \cup {NoKey},
         Create(e, given, key)
  PROVE  StateInv'
<1>1. PICK v : v = Event("created", e, FreshId, Body(Prepared(e, given), given), key)
  OBVIOUS
<1>2. v.kind = "created" /\ Called(v)
  BY <1>1, CreateCalls DEF Event
<1>3. CASE LostStep(v)
  BY <1>2, <1>3, OtherState
<1>4. CASE HeardStep(v)
  BY <1>2, <1>4, BirthState
<1> QED BY <1>2, <1>3, <1>4 DEF Called

LEMMA ImportState ==
  ASSUME CoreInv, StateInv, NEW e \in Entity, NEW values \in Imports[e], ImportRecord(e, values)
  PROVE  StateInv'
<1>1. PICK v : v = ImportEvent(e, values)
  OBVIOUS
<1>2. v.kind = "created" /\ Called(v) /\ HeardStep(v)
  BY <1>1, ImportCalls DEF ImportEvent, Event
<1> QED BY <1>2, BirthState

LEMMA AgainState ==
  ASSUME CoreInv, CoreInv', StateInv, NEW n \in behind, NEW b, Again(n, b)
  PROVE  StateInv'
<1> DEFINE x == journal[n].id
<1>1. /\ journal' = journal /\ n \in DOMAIN journal /\ journal[n].kind = "created"
      /\ x \notin DOMAIN db.records /\ Heeded \subseteq Heeded'
      /\ db'.records = Over(Entry(x, [entity |-> journal[n].entity, values |-> b.values]), db.records)
      /\ db'.since = Over(Entry(x, n), db.since)
      /\ \A m \in DOMAIN journal : journal[m].id = x => m = n \/ journal[m].kind # "moved"
      /\ rewritten \subseteq rewritten'
  BY CoreFacts DEF Again, Marks
<1>2. Longer
  BY <1>1 DEF Longer
<1>3. PICK y, c, w : y = x /\ c = journal[n].entity /\ w = b.values
  OBVIOUS
<1>4. \A q \in DOMAIN journal' : ~(journal'[q].kind = "moved" /\ journal'[q].id = y)
  BY <1>1, <1>3
<1>5. \A q \in DOMAIN journal' \ DOMAIN journal : journal'[q].kind # "moved"
  BY <1>1
<1>6. /\ y \notin DOMAIN db.records /\ journal'[n].kind = "created"
      /\ db'.records = Over(Entry(y, [entity |-> c, values |-> w]), db.records)
      /\ db'.since = Over(Entry(y, n), db.since)
  BY <1>1, <1>3
<1> HIDE DEF x
<1> QED BY <1>1, <1>2, <1>4, <1>5, <1>6, BornState

(* What a call that was answered wrote to a record.                        *)
LEMMA WriteHeard ==
  ASSUME CoreInv, NEW e, Called(e), HeardStep(e), e.kind \in {"updated", "moved"}
  PROVE  /\ e.id \in DOMAIN db.records /\ DOMAIN db'.records = DOMAIN db.records
         /\ db.records[e.id].entity = e.entity
         /\ db'.records[e.id].entity = e.entity
         /\ db'.records[e.id].values = Over(Wrote(e), db.records[e.id].values)
         /\ \A y \in DOMAIN db.records \ {e.id} : db'.records[y] = db.records[y]
         /\ db'.since = IF e.kind = "moved" THEN Over(Entry(e.id, Len(journal) + 1), db.since)
                        ELSE db.since
<1>1. /\ IsProjection(db) /\ IsMap(db.records)
      /\ db'.records = Apply(db, Len(journal) + 1, e).records
      /\ db'.since = Apply(db, Len(journal) + 1, e).since
  BY CallGrows
<1>2. e.id \in DOMAIN db.records /\ db.records[e.id].entity = e.entity
  BY DEF Called, NewFits, Of
<1>3. PICK r : r = db.records[e.id] /\ r = [entity |-> r.entity, values |-> r.values]
  <2>1. LET r == db.records[e.id] IN r = [entity |-> r.entity, values |-> r.values]
    BY <1>2, RecordIs DEF CoreInv, Told
  <2> QED BY <2>1
<1>4. db.records[e.id] = [entity |-> r.entity, values |-> r.values]
  BY <1>3
<1>5. CASE e.kind = "updated"
  <2>1. LET p == Apply(db, Len(journal) + 1, e)
        IN  /\ DOMAIN p.records = DOMAIN db.records
            /\ p.records[e.id] = [entity |-> r.entity, values |-> Over(e.body, r.values)]
            /\ \A y \in DOMAIN db.records \ {e.id} : p.records[y] = db.records[y]
            /\ p.since = db.since
    BY <1>1, <1>2, <1>4, <1>5, UpdatedApplied
  <2>2. Wrote(e) = e.body
    BY <1>5 DEF Wrote
  <2> QED BY <1>1, <1>2, <1>3, <1>5, <2>1, <2>2
<1>6. CASE e.kind = "moved"
  <2>1. LET p == Apply(db, Len(journal) + 1, e)
            w == Entry(StateField[e.entity], e.body)
        IN  /\ DOMAIN p.records = DOMAIN db.records
            /\ p.records[e.id] = [entity |-> r.entity, values |-> Over(w, r.values)]
            /\ \A y \in DOMAIN db.records \ {e.id} : p.records[y] = db.records[y]
            /\ p.since = Over(Entry(e.id, Len(journal) + 1), db.since)
    BY <1>1, <1>2, <1>4, <1>6, MovedApplied
  <2>2. Wrote(e) = Entry(StateField[e.entity], e.body)
    BY <1>6 DEF Wrote
  <2> QED BY <1>1, <1>2, <1>3, <1>6, <2>1, <2>2
<1> QED BY <1>5, <1>6

LEMMA UpdateState ==
  ASSUME CoreInv, StateInv, NEW e \in Entity, NEW id, NEW values, NEW key \in Keys \cup {NoKey},
         Update(e, id, values, key)
  PROVE  StateInv'
<1>1. PICK w : w = Changed(id, values)
  OBVIOUS
<1>2. PICK v : v = Event("updated", e, id, w, key)
  OBVIOUS
<1>3. /\ Called(v) /\ v.kind = "updated" /\ v.id = id /\ v.entity = e /\ v.body = w
      /\ StateField[e] \notin DOMAIN w
  BY <1>1, <1>2, UpdateCalls DEF Event, Update, MayUpdate, Changed, Differing
<1>4. CASE LostStep(v)
  BY <1>3, <1>4, OtherState
<1>5. CASE HeardStep(v)
  <2>1. /\ Longer /\ CoreInv' /\ Heeded \subseteq Heeded'
        /\ \A q \in DOMAIN journal' \ DOMAIN journal : journal'[q].kind = "updated"
    BY <1>3, CallGrows
  <2>2. /\ id \in DOMAIN db.records /\ DOMAIN db'.records = DOMAIN db.records
        /\ db.records[id].entity = e /\ db'.records[id].entity = e
        /\ db'.records[id].values = Over(w, db.records[id].values)
        /\ \A y \in DOMAIN db.records \ {id} : db'.records[y] = db.records[y]
        /\ db'.since = db.since
    <3>1. Wrote(v) = w
      BY <1>3 DEF Wrote
    <3> QED BY <1>3, <1>5, <3>1, WriteHeard
  <2> SUFFICES ASSUME NEW x \in DOMAIN db.records, x \notin rewritten PROVE StateAt(x)'
    BY <2>1, <2>2 DEF StateInv, Longer
  <2>3. PICK field : field = StateField[db.records[x].entity]
    OBVIOUS
  <2>4. /\ db'.records[x].entity = db.records[x].entity
        /\ field \in DOMAIN db.records[x].values => field \in DOMAIN db'.records[x].values
        /\ ValueAt(db'.records[x].values, field) = ValueAt(db.records[x].values, field)
    <3>1. CASE x = id
      <4>1. field \notin DOMAIN w
        BY <1>3, <2>2, <2>3, <3>1
      <4> QED BY <2>2, <3>1, <4>1, OverAt
    <3>2. CASE x # id
      BY <2>2, <3>2
    <3> QED BY <3>1, <3>2
  <2>5. \A q \in DOMAIN journal' \ DOMAIN journal : journal'[q].kind # "moved" \/ journal'[q].id # x
    BY <2>1
  <2>6. db'.since[x] = db.since[x]
    BY <2>2
  <2> QED BY <2>1, <2>3, <2>4, <2>5, <2>6, StateKept
<1> QED BY <1>3, <1>4, <1>5 DEF Called

LEMMA MoveState ==
  ASSUME CoreInv, StateInv, NEW e \in Entity, NEW id, NEW to, NEW key \in Keys \cup {NoKey},
         Move(e, id, to, key)
  PROVE  StateInv'
<1>1. PICK v : v = Event("moved", e, id, Text(to), key)
  OBVIOUS
<1>2. /\ Called(v) /\ v.kind = "moved" /\ v.id = id /\ v.entity = e /\ v.body = Text(to)
      /\ ValueAt(db.records[id].values, StateField[e]) # Text(to)
      /\ id \in DOMAIN db.records /\ db.records[id].entity = e
  BY <1>1, MoveCalls DEF Event, Move, MayMove, Exists, Of
<1>3. PICK n : n = Len(journal) + 1
  OBVIOUS
<1>4. /\ Longer /\ CoreInv' /\ Heeded \subseteq Heeded'
      /\ \A q \in DOMAIN journal' \ DOMAIN journal : q = n
      /\ \A q \in DOMAIN journal' : q <= n
      /\ journal'[n].kind = "moved" /\ journal'[n].id = id /\ journal'[n].body = Text(to)
  BY <1>2, <1>3, CallGrows
<1>5. ASSUME NEW x \in DOMAIN db.records, x \notin rewritten, x # id, db'.records[x] = db.records[x],
             db'.since[x] = db.since[x]
      PROVE  StateAt(x)'
  <2>1. PICK field : field = StateField[db.records[x].entity]
    OBVIOUS
  <2>2. \A q \in DOMAIN journal' \ DOMAIN journal : journal'[q].kind # "moved" \/ journal'[q].id # x
    BY <1>4, <1>5
  <2> QED BY <1>4, <1>5, <2>1, <2>2, StateKept
<1>6. CASE LostStep(v)
  <2>1. db' = db
    BY <1>2, <1>6, CallGrows
  <2>2. ASSUME id \notin rewritten PROVE StateAt(id)'
    <3>1. /\ db.since[id] \in DOMAIN journal /\ journal'[db.since[id]] = journal[db.since[id]]
      BY <1>2, <1>4, SinceIs DEF Longer
    <3>2. StateAt(id)
      BY <1>2, <2>2 DEF StateInv
    <3>3. ASSUME NEW q \in behind', journal'[q].kind = "moved", journal'[q].id = id, q > db.since[id]
          PROVE  journal'[q].body # ValueAt(db.records[id].values, StateField[e])
      <4>1. CASE q \in DOMAIN journal
        <5>1. q \in behind /\ journal'[q] = journal[q]
          BY <1>4, <4>1, BehindIs
        <5> QED BY <1>2, <3>2, <3>3, <5>1 DEF StateAt
      <4>2. CASE q \notin DOMAIN journal
        <5>1. q = n
          BY <1>4, <4>2, BehindIs
        <5> QED BY <1>2, <1>4, <5>1
      <4> QED BY <4>1, <4>2
    <3> QED BY <1>2, <2>1, <3>1, <3>2, <3>3 DEF StateAt
  <2> QED BY <1>4, <1>5, <2>1, <2>2 DEF StateInv, Longer
<1>7. CASE HeardStep(v)
  <2>1. /\ DOMAIN db'.records = DOMAIN db.records /\ db'.records[id].entity = e
        /\ db'.records[id].values = Over(Entry(StateField[e], Text(to)), db.records[id].values)
        /\ \A y \in DOMAIN db.records \ {id} : db'.records[y] = db.records[y]
        /\ db'.since = Over(Entry(id, n), db.since)
    <3>1. Wrote(v) = Entry(StateField[e], Text(to))
      BY <1>2 DEF Wrote
    <3> QED BY <1>2, <1>3, <1>7, <3>1, WriteHeard
  <2>2. StateAt(id)'
    <3>1. db'.since[id] = n
      BY <2>1 DEF Over, Entry
    <3>2. StateField[e] \in DOMAIN db'.records[id].values
          /\ db'.records[id].values[StateField[e]] = Text(to)
      BY <2>1 DEF Over, Entry
    <3>3. \A q \in behind' : ~(q > n)
      <4> TAKE q \in behind'
      <4>1. q \in DOMAIN journal' /\ DOMAIN journal' = 1..Len(journal') /\ Len(journal') \in Nat
        BY <1>4, BehindIs, SequenceIs DEF CoreInv, JournalInv
      <4>2. n \in Nat
        BY <1>3, CoreFacts
      <4> QED BY <1>4, <4>1, <4>2
    <3> QED BY <1>4, <2>1, <3>1, <3>2, <3>3 DEF StateAt
  <2>3. ASSUME NEW x \in DOMAIN db.records, x \notin rewritten, x # id PROVE StateAt(x)'
    <3>1. db'.records[x] = db.records[x]
      BY <2>1, <2>3
    <3>2. x \in DOMAIN db.since
      BY SinceIs
    <3>3. db'.since[x] = db.since[x]
      BY <2>1, <2>3, <3>2 DEF Over, Entry
    <3> QED BY <1>5, <2>3, <3>1, <3>3
  <2> QED BY <1>4, <2>1, <2>2, <2>3 DEF StateInv, Longer
<1> QED BY <1>2, <1>6, <1>7 DEF Called

(* An update or a transition repeated: only what was stored, unheard, is   *)
(* written unmarked.                                                       *)
LEMMA RewriteState ==
  ASSUME CoreInv, CoreInv', StateInv, NEW n, NEW b, Rewrites(n, b)
  PROVE  StateInv'
<1>1. PICK y, e, T : y = journal[n].id /\ e = journal[n].entity /\ T = Over(Entry(y, n), db.since)
  OBVIOUS
<1>2. /\ journal' = journal /\ n \in DOMAIN journal /\ journal[n].kind \in {"updated", "moved"}
      /\ behind' = behind \ {n} /\ Heeded \subseteq Heeded' /\ rewritten \subseteq rewritten'
      /\ y \in DOMAIN db.records /\ db.records[y].entity = e
      /\ DOMAIN db'.records = DOMAIN db.records
      /\ \A z \in DOMAIN db.records \ {y} : db'.records[z] = db.records[z]
      /\ db'.since = IF journal[n].kind = "moved" THEN T ELSE db.since
      /\ y \notin rewritten' => AsStored(n, b)
  BY <1>1 DEF Rewrites, Marks
<1>3. Longer
  BY <1>2 DEF Longer
<1>4. PICK w : /\ w = IF journal[n].kind = "moved" THEN Entry(StateField[e], b) ELSE b
               /\ db'.records[y] = [entity |-> e, values |-> Over(w, db.records[y].values)]
  BY <1>1 DEF Rewrites
<1>5. journal[n].kind = "updated" => StateField[e] \notin DOMAIN w
  BY <1>1, <1>4 DEF Rewrites
<1>6. ASSUME NEW x \in DOMAIN db.records, x \notin rewritten, x # y \/ journal[n].kind = "updated"
      PROVE  StateAt(x)'
  <2>1. PICK field : field = StateField[db.records[x].entity]
    OBVIOUS
  <2>2. /\ db'.records[x].entity = db.records[x].entity
        /\ field \in DOMAIN db.records[x].values => field \in DOMAIN db'.records[x].values
        /\ ValueAt(db'.records[x].values, field) = ValueAt(db.records[x].values, field)
    <3>1. CASE x = y
      <4>1. field \notin DOMAIN w
        BY <1>2, <1>5, <1>6, <2>1, <3>1
      <4> QED BY <1>2, <1>4, <3>1, <4>1, OverAt
    <3>2. CASE x # y
      BY <1>2, <3>2
    <3> QED BY <3>1, <3>2
  <2>3. db'.since[x] = db.since[x]
    <3>1. x \in DOMAIN db.since
      BY SinceIs
    <3>2. CASE x # y
      BY <1>1, <1>2, <3>1, <3>2 DEF Over, Entry
    <3>3. CASE journal[n].kind = "updated"
      BY <1>2, <3>3
    <3> QED BY <1>6, <3>2, <3>3
  <2>4. \A q \in DOMAIN journal' \ DOMAIN journal : journal'[q].kind # "moved" \/ journal'[q].id # x
    BY <1>2
  <2> QED BY <1>2, <1>3, <1>6, <2>1, <2>2, <2>3, <2>4, StateKept
<1>7. ASSUME y \notin rewritten', journal[n].kind = "moved"
      PROVE  StateAt(y)'
  <2>1. /\ b = journal[n].body
        /\ \A m \in (n + 1)..Len(journal) :
             journal[m].kind \in {"updated", "moved"} => journal[m].id # y
    BY <1>1, <1>2, <1>7 DEF AsStored
  <2>2. db'.since[y] = n
    BY <1>1, <1>2, <1>7 DEF Over, Entry
  <2>3. w = Entry(StateField[e], b)
    BY <1>4, <1>7
  <2>4. /\ db'.records[y].entity = e
        /\ StateField[e] \in DOMAIN db'.records[y].values
        /\ db'.records[y].values[StateField[e]] = journal[n].body
    BY <1>4, <2>1, <2>3 DEF Over, Entry
  <2>5. ASSUME NEW q \in behind', journal'[q].kind = "moved", journal'[q].id = y, q > n
        PROVE  FALSE
    <3>1. q \in DOMAIN journal /\ DOMAIN journal = 1..Len(journal) /\ Len(journal) \in Nat
      BY <1>2, CoreFacts
    <3>2. q \in (n + 1)..Len(journal)
      BY <1>2, <2>5, <3>1
    <3> QED BY <1>2, <2>1, <2>5, <3>2
  <2> QED BY <1>2, <2>2, <2>4, <2>5 DEF StateAt
<1>8. ASSUME NEW x \in DOMAIN db'.records, x \notin rewritten'
      PROVE  StateAt(x)'
  BY <1>2, <1>6, <1>7, <1>8
<1> QED BY <1>8 DEF StateInv

LEMMA RestartState ==
  ASSUME CoreInv, CoreInv', Restart
  PROVE  StateInv'
<1> DEFINE T == Heeded'
<1>1. behind' = {} /\ skew' = {} /\ journal' = journal
  BY DEF Restart
<1>2. /\ RecordsTold(journal', T, db') /\ SinceTold(journal', T, db')
      /\ Known(journal', T) /\ BornOnce(journal') /\ \A n \in DOMAIN journal' : EventFits(journal'[n])
      /\ T \subseteq DOMAIN journal' /\ T \in SUBSET Nat
  <2>1. Len(journal') \in Nat /\ DOMAIN journal' = 1..Len(journal')
    BY SequenceIs DEF CoreInv, JournalInv
  <2>2. \A n \in DOMAIN journal' : EventFits(journal'[n])
    BY DEF CoreInv, JournalInv, EventFits
  <2> QED BY <2>1, <2>2 DEF CoreInv, JournalInv, Told, Heeded
<1> SUFFICES ASSUME NEW x \in DOMAIN db'.records \ rewritten' PROVE StateAt(x)'
  BY DEF StateInv
<1>3. PICK b \in Born(journal', T) : journal'[b].id = x
  BY <1>2 DEF RecordsTold
<1>4. PICK c : c = journal'[b].entity /\ db'.records[x].entity = c
  <2>1. LET r == db'.records[x] IN r = [entity |-> journal'[b].entity, values |-> r.values]
    BY <1>2, <1>3 DEF RecordsTold
  <2> QED BY <2>1
<1>5. ValuesTold(journal', T, x, db'.records[x].values) /\ SinceLast(journal', T, db', x)
  BY <1>1, <1>3 DEF CoreInv, ValuesInv, AsTold
<1>6. ASSUME NEW q \in DOMAIN journal', journal'[q].kind \in {"updated", "moved"}, journal'[q].id = x
      PROVE  journal'[q].entity = c
  <2>1. PICK d \in Born(journal', T) : journal'[d].id = x /\ journal'[d].entity = journal'[q].entity
    BY <1>2, <1>6 DEF Known
  <2>2. d \in DOMAIN journal' /\ b \in DOMAIN journal' /\ journal'[d].kind = "created" /\ journal'[b].kind = "created"
    BY <1>2, <1>3, <2>1 DEF Born
  <2>3. d = b
    BY <1>2, <1>3, <2>1, <2>2 DEF BornOnce
  <2> QED BY <1>4, <2>1, <2>3
<1>7. PICK s : s = db'.since[x]
  OBVIOUS
<1>8. /\ s \in T /\ s \in DOMAIN journal' /\ Enters(journal'[s], x)
      /\ \A m \in T : Enters(journal'[m], x) => m <= s
  BY <1>2, <1>5, <1>7 DEF SinceTold, SinceLast
<1>9. ASSUME journal'[s].kind = "moved"
      PROVE  /\ StateField[c] \in DOMAIN db'.records[x].values
             /\ db'.records[x].values[StateField[c]] = journal'[s].body
  <2>1. journal'[s].id = x /\ journal'[s].entity = c
    BY <1>6, <1>8, <1>9 DEF Enters
  <2>2. Wrote(journal'[s]) = Entry(StateField[c], journal'[s].body)
    BY <1>9, <2>1 DEF Wrote
  <2>3. StateField[c] \in DOMAIN Wrote(journal'[s])
        /\ Wrote(journal'[s])[StateField[c]] = journal'[s].body
    BY <2>2 DEF Entry
  <2>4. StateField[c] \in DOMAIN db'.records[x].values
    BY <1>5, <1>8, <2>1, <2>3 DEF ValuesTold
  <2>5. PICK m \in T :
          /\ journal'[m].id = x /\ StateField[c] \in DOMAIN Wrote(journal'[m])
          /\ db'.records[x].values[StateField[c]] = Wrote(journal'[m])[StateField[c]]
          /\ \A q \in T : journal'[q].id = x /\ StateField[c] \in DOMAIN Wrote(journal'[q]) => q <= m
    BY <1>5, <2>4 DEF ValuesTold
  <2>6. s <= m /\ m \in Nat /\ s \in Nat /\ m \in DOMAIN journal'
    BY <1>2, <1>8, <2>1, <2>3, <2>5
  <2>7. journal'[m].kind # "updated"
    <3> SUFFICES ASSUME journal'[m].kind = "updated" PROVE FALSE
      OBVIOUS
    <3>1. journal'[m].entity = c
      BY <1>6, <2>5, <2>6
    <3>2. Wrote(journal'[m]) = journal'[m].body
      BY DEF Wrote
    <3>3. EventFits(journal'[m])
      BY <1>2, <2>6
    <3> QED BY <2>5, <3>1, <3>2, <3>3 DEF EventFits
  <2>8. journal'[m].kind \in {"created", "moved"}
    BY <2>5, <2>7 DEF Wrote
  <2>9. m <= s
    BY <1>8, <2>5, <2>8 DEF Enters
  <2>10. m = s
    BY <2>6, <2>9
  <2> QED BY <2>3, <2>4, <2>5, <2>10
<1> QED BY <1>1, <1>4, <1>7, <1>9 DEF StateAt

LEMMA StateStep ==
  ASSUME CoreInv, StateInv, [Next]_vars
  PROVE  StateInv'
<1>1. CoreInv' /\ Longer /\ Heeded \subseteq Heeded'
  BY CoreKept, Grows
<1>2. ASSUME NEW e \in Entity, NEW given, NEW key \in Keys \cup {NoKey}, Create(e, given, key)
      PROVE  StateInv'
  BY <1>2, CreateState
<1>3. ASSUME NEW n \in behind, NEW b, Again(n, b)
      PROVE  StateInv'
  BY <1>1, <1>3, AgainState
<1>4. ASSUME NEW e \in Entity, NEW id, NEW values, NEW key \in Keys \cup {NoKey},
             Update(e, id, values, key)
      PROVE  StateInv'
  BY <1>4, UpdateState
<1>5. ASSUME NEW e \in Entity, NEW id, NEW to, NEW key \in Keys \cup {NoKey}, Move(e, id, to, key)
      PROVE  StateInv'
  BY <1>5, MoveState
<1>6. ASSUME NEW e, NEW id, NEW name, NEW other, NEW kind, NEW r, Asks(e, id, name, other, kind, r)
      PROVE  StateInv'
  <2>1. PICK v : v = Event(kind, e, id, Asked(r, id, name, other), NoKey)
    OBVIOUS
  <2>2. Called(v) /\ v.kind \in {"linked", "unlinked", "comment"}
    BY <1>6, <2>1 DEF Asks, Event
  <2> QED BY <2>2, OtherState
<1>7. ASSUME NEW e \in Entity, NEW id, NEW internal, Comment(e, id, internal)
      PROVE  StateInv'
  <2>1. PICK v : v = Event("comment", e, id, internal, NoKey)
    OBVIOUS
  <2>2. Called(v) /\ v.kind \in {"linked", "unlinked", "comment"}
    BY <1>7, <2>1, CommentCalls DEF Event
  <2> QED BY <2>2, OtherState
<1>8. ASSUME NEW failed, NEW H, Beat(failed, H)
      PROVE  StateInv'
  <2>1. db'.records = db.records /\ db'.since = db.since
    BY <1>8, BeatLonger
  <2>2. \A q \in DOMAIN journal' \ DOMAIN journal : journal'[q].kind # "moved"
    BY <1>8, BeatGrows
  <2> QED BY <1>1, <2>1, <2>2, StillState
<1>9. CASE NextDay \/ UNCHANGED vars
  <2>1. /\ db'.records = db.records /\ db'.since = db.since
        /\ \A q \in DOMAIN journal' \ DOMAIN journal : journal'[q].kind # "moved"
    BY <1>9 DEF NextDay, vars
  <2> QED BY <1>1, <2>1, StillState
<1>10. CASE Restart
  BY <1>1, <1>10, RestartState
<1>11. ASSUME NEW e \in Entity, NEW values \in Imports[e], ImportRecord(e, values)
       PROVE  StateInv'
  BY <1>11, ImportState
<1>12. ASSUME NEW n, NEW b, Rewrites(n, b)
       PROVE  StateInv'
  BY <1>1, <1>12, RewriteState
<1> QED BY <1>2, <1>3, <1>4, <1>5, <1>6, <1>7, <1>8, <1>9, <1>10, <1>11, <1>12, CoreStep

(* The periods of the tasks.                                               *)
LEMMA TaskInit == Init => TaskInv /\ TickedInv
<1> SUFFICES ASSUME Init PROVE TaskInv /\ TickedInv
  OBVIOUS
<1>1. DOMAIN journal = {} /\ ticked = FALSE
  BY DEF Init
<1> QED BY <1>1 DEF TaskInv, TickedInv

(* A task that fits its period does so in a longer journal.                *)
LEMMA PeriodStays ==
  ASSUME CoreInv, Longer, Heeded \subseteq Heeded', NEW n \in DOMAIN journal, PeriodFits(n)
  PROVE  PeriodFits(n)'
<1> DEFINE f == journal[n].body
           p == journal[n].key[5]
           state == Text(Rules[f[1]].state)
<1>1. /\ DOMAIN journal = 1..Len(journal) /\ Len(journal) \in Nat /\ Heeded \subseteq DOMAIN journal
      /\ \A m \in DOMAIN journal : journal'[m] = journal[m]
  BY CoreFacts DEF Longer
<1>2. p \in Heeded /\ p < n /\ p \in DOMAIN journal
  BY <1>1 DEF PeriodFits
<1>3. Enters(journal'[p], f[3]) /\ (journal'[p].kind = "moved" => journal'[p].body = state)
  BY <1>1, <1>2 DEF PeriodFits
<1>4. ASSUME NEW q \in (p + 1)..(n - 1), Enters(journal'[q], f[3])
      PROVE  journal'[q].kind = "moved" /\ journal'[q].body # state
  <2>1. q \in DOMAIN journal
    BY <1>1, <1>2
  <2> QED BY <1>1, <1>4, <2>1 DEF PeriodFits
<1>5. journal'[n] = journal[n]
  BY <1>1
<1> QED BY <1>2, <1>3, <1>4, <1>5 DEF PeriodFits

(* A task that a heartbeat makes fits the period its record is stuck in.   *)
LEMMA PeriodStarts ==
  ASSUME CoreInv, StateInv, NEW failed, NEW H, Beat(failed, H),
         NEW n \in DOMAIN journal' \ DOMAIN journal, Rules[journal'[n].body[1]].on = "stuck",
         journal'[n].body[3] \notin rewritten
  PROVE  PeriodFits(n)'
<1>1. PICK f : f = journal'[n].body
  OBVIOUS
<1>2. /\ IsFiring(f) /\ journal'[n].key = KeyOf(f) /\ JournalInv'
      /\ \A q \in DOMAIN journal' \ DOMAIN journal : journal'[q].kind = "task"
  BY <1>1, BeatGrows
<1>3. PICK x, p, state : x = f[3] /\ p = KeyOf(f)[5] /\ state = Text(Rules[f[1]].state)
  OBVIOUS
<1>4. /\ p = db.since[x] /\ x \in DOMAIN db.since /\ x \in DOMAIN db.records
      /\ db.records[x].entity = Rules[f[1]].entity
      /\ ValueAt(db.records[x].values, StateField[Rules[f[1]].entity]) = state
  BY <1>1, <1>2, <1>3, PeriodIs DEF Of
<1>5. /\ p \in Heeded /\ p \in DOMAIN journal /\ p \in Nat /\ Enters(journal[p], x)
      /\ \A m \in Heeded : Enters(journal[m], x) => m <= p
  BY <1>1, <1>3, <1>4, SinceIs, SinceIsLast
<1>6. /\ DOMAIN journal = 1..Len(journal) /\ Len(journal) \in Nat
      /\ DOMAIN journal' = 1..Len(journal') /\ Len(journal') \in Nat /\ n > Len(journal)
      /\ \A m \in DOMAIN journal : journal'[m] = journal[m]
      /\ Heeded \subseteq Heeded'
  BY <1>2, CoreFacts, SequenceIs DEF Beat, JournalInv
<1>7. StateAt(x)
  BY <1>1, <1>3, <1>4 DEF StateInv
<1>8. journal[p].kind = "moved" => journal[p].body = state
  BY <1>4, <1>7 DEF StateAt, ValueAt
<1>9. ASSUME NEW q \in (p + 1)..(n - 1), Enters(journal'[q], x)
      PROVE  journal'[q].kind = "moved" /\ journal'[q].body # state
  <2>1. q \in DOMAIN journal'
    BY <1>5, <1>6
  <2>2. q \in DOMAIN journal
    BY <1>2, <1>9, <2>1 DEF Enters
  <2>3. journal'[q] = journal[q] /\ Enters(journal[q], x) /\ q > p
    BY <1>5, <1>6, <1>9, <2>2
  <2>4. q \notin Heeded /\ q \in behind
    <3>1. ~(q <= p)
      BY <1>5, <1>6, <2>2, <2>3
    <3>2. q \notin Heeded
      BY <1>5, <2>3, <3>1
    <3> QED BY <2>2, <3>2 DEF Heeded
  <2>5. journal[q].kind # "created"
    <3> SUFFICES ASSUME journal[q].kind = "created" PROVE FALSE
      OBVIOUS
    <3>1. /\ Birth(x) \in DOMAIN journal /\ journal[Birth(x)].kind = "created"
          /\ journal[Birth(x)].id = x /\ Birth(x) \in Heeded
      BY <1>4, BirthIs
    <3>2. q = Birth(x)
      BY <2>2, <2>3, <3>1 DEF CoreInv, JournalInv, BornOnce, Enters
    <3> QED BY <2>4, <3>1, <3>2
  <2>6. journal[q].kind = "moved" /\ journal[q].id = x
    BY <2>3, <2>5 DEF Enters
  <2>7. journal[q].body # state
    BY <1>4, <1>7, <2>3, <2>4, <2>6 DEF StateAt
  <2> QED BY <2>3, <2>6, <2>7
<1>10. p \in Heeded' /\ p < n /\ Enters(journal'[p], x) /\ (journal'[p].kind = "moved" => journal'[p].body = state)
  BY <1>5, <1>6, <1>8
<1> QED BY <1>1, <1>2, <1>3, <1>9, <1>10 DEF PeriodFits

LEMMA TaskStep ==
  ASSUME CoreInv, StateInv, TaskInv, [Next]_vars
  PROVE  TaskInv'
<1>1. Longer /\ Heeded \subseteq Heeded'
  BY Grows
<1>2. ASSUME NEW n \in DOMAIN journal, journal'[n].kind = "task",
             Rules[journal'[n].body[1]].on = "stuck", journal'[n].body[3] \notin rewritten'
      PROVE  PeriodFits(n)'
  <2>1. journal'[n] = journal[n]
    BY <1>1 DEF Longer
  <2>2. PeriodFits(n)
    BY <1>1, <1>2, <2>1 DEF TaskInv, Longer
  <2> QED BY <1>1, <2>2, PeriodStays
<1> SUFFICES ASSUME NEW n \in DOMAIN journal' \ DOMAIN journal, journal'[n].kind = "task",
                    Rules[journal'[n].body[1]].on = "stuck", journal'[n].body[3] \notin rewritten
             PROVE  PeriodFits(n)'
  BY <1>1, <1>2 DEF TaskInv, Longer
<1>3. ASSUME NEW e, Called(e)
      PROVE  FALSE
  <2>1. journal'[n].kind = e.kind /\ e.kind # "task"
    BY <1>3, CallGrows DEF Called, NewFits
  <2> QED BY <2>1
<1>4. ASSUME NEW e \in Entity, NEW given, NEW key \in Keys \cup {NoKey}, Create(e, given, key)
      PROVE  FALSE
  BY <1>3, <1>4, CreateCalls
<1>5. ASSUME NEW e \in Entity, NEW id, NEW values, NEW key \in Keys \cup {NoKey},
             Update(e, id, values, key)
      PROVE  FALSE
  BY <1>3, <1>5, UpdateCalls
<1>6. ASSUME NEW e \in Entity, NEW id, NEW to, NEW key \in Keys \cup {NoKey}, Move(e, id, to, key)
      PROVE  FALSE
  BY <1>3, <1>6, MoveCalls
<1>7. ASSUME NEW e, NEW id, NEW name, NEW other, NEW kind, NEW r, Asks(e, id, name, other, kind, r)
      PROVE  FALSE
  BY <1>3, <1>7 DEF Asks
<1>8. ASSUME NEW e \in Entity, NEW id, NEW internal, Comment(e, id, internal)
      PROVE  FALSE
  BY <1>3, <1>8, CommentCalls
<1>9. ASSUME NEW failed, NEW H, Beat(failed, H)
      PROVE  PeriodFits(n)'
  BY <1>9, PeriodStarts
<1>10. ASSUME journal' = journal PROVE FALSE
  BY <1>10
<1>11. ASSUME NEW e \in Entity, NEW values \in Imports[e], ImportRecord(e, values)
       PROVE  FALSE
  BY <1>3, <1>11, ImportCalls
<1> QED BY <1>4, <1>5, <1>6, <1>7, <1>8, <1>9, <1>10, <1>11, CoreStep
        DEF Again, Rewrites, NextDay, Restart, vars

(* What is due is the same while the records, their clocks and the day are.*)
LEMMA SameFirings ==
  ASSUME CoreInv, Longer, db'.records = db.records, db'.since = db.since, day' = day
  PROVE  Firings' = Firings /\ \A f : KeyOf(f)' = KeyOf(f)
<1>1. ASSUME NEW rule, NEW x PROVE Holds(rule, x)' = Holds(rule, x)
  BY DEF Holds
<1>2. ASSUME NEW rule, NEW x \in DOMAIN db.records PROVE Overdue(rule, x)' = Overdue(rule, x)
  <2>1. db.since[x] \in DOMAIN journal /\ journal'[db.since[x]] = journal[db.since[x]]
    BY SinceIs DEF Longer
  <2> QED BY <2>1 DEF Overdue
<1>3. ASSUME NEW rule PROVE Targets(rule)' = Targets(rule)
  <2>1. Of(rule.entity, db.records)' = Of(rule.entity, db.records)
    OBVIOUS
  <2>2. Of(rule.entity, db.records) \subseteq DOMAIN db.records
    BY DEF Of
  <2> QED BY <1>1, <1>2, <2>1, <2>2 DEF Targets
<1>4. \A i : Targets(Rules[i])' = Targets(Rules[i])
  BY <1>3
<1>5. Firings' = Firings
  BY <1>4 DEF Firings
<1>6. \A f : KeyOf(f)' = KeyOf(f)
  BY DEF KeyOf, Key
<1> QED BY <1>5, <1>6

LEMMA TickedStep ==
  ASSUME CoreInv, TickedInv, [Next]_vars
  PROVE  TickedInv'
<1>1. ASSUME NEW e, Called(e)
      PROVE  TickedInv'
  BY <1>1 DEF Called, HeardStep, LostStep, TickedInv
<1>2. ASSUME NEW e \in Entity, NEW given, NEW key \in Keys \cup {NoKey}, Create(e, given, key)
      PROVE  TickedInv'
  BY <1>1, <1>2, CreateCalls
<1>3. ASSUME NEW e \in Entity, NEW id, NEW values, NEW key \in Keys \cup {NoKey},
             Update(e, id, values, key)
      PROVE  TickedInv'
  BY <1>1, <1>3, UpdateCalls
<1>4. ASSUME NEW e \in Entity, NEW id, NEW to, NEW key \in Keys \cup {NoKey}, Move(e, id, to, key)
      PROVE  TickedInv'
  BY <1>1, <1>4, MoveCalls
<1>5. ASSUME NEW e, NEW id, NEW name, NEW other, NEW kind, NEW r, Asks(e, id, name, other, kind, r)
      PROVE  TickedInv'
  BY <1>1, <1>5 DEF Asks
<1>6. ASSUME NEW e \in Entity, NEW id, NEW internal, Comment(e, id, internal)
      PROVE  TickedInv'
  BY <1>1, <1>6, CommentCalls
<1>7. ASSUME NEW failed, NEW H, Beat(failed, H)
      PROVE  TickedInv'
  <2> SUFFICES ASSUME ticked', NEW f \in Firings'
               PROVE  \E n \in db'.tasks : journal'[n].key = Key(f[1], f[2], f[3])'
    BY DEF TickedInv
  <2>1. Firings' = Firings /\ KeyOf(f)' = KeyOf(f)
    <3>1. Longer /\ db'.records = db.records /\ db'.since = db.since /\ day' = day
      BY <1>7, BeatLonger DEF Beat
    <3> QED BY <3>1, SameFirings
  <2>2. PICK n \in H : journal'[n].key = KeyOf(f)
    BY <1>7, <2>1 DEF Beat
  <2>3. n \in db'.tasks
    <3>1. IsProjection(db) /\ db' = [db EXCEPT !.tasks = @ \cup H]
      BY <1>7 DEF CoreInv, Told, Beat
    <3>2. ASSUME NEW p, p = [[records |-> db.records, since |-> db.since, links |-> db.links,
                              comments |-> db.comments, tasks |-> db.tasks] EXCEPT !.tasks = @ \cup H]
          PROVE  n \in p.tasks
      BY <2>2, <3>2
    <3> QED BY <3>1, <3>2 DEF IsProjection
  <2> QED BY <2>1, <2>2, <2>3 DEF KeyOf
<1>8. CASE UNCHANGED vars
  <2>1. Longer /\ db' = db /\ day' = day /\ journal' = journal /\ ticked' = ticked
    BY <1>8 DEF vars, Longer
  <2>2. Firings' = Firings /\ \A f : KeyOf(f)' = KeyOf(f)
    BY <2>1, SameFirings
  <2> QED BY <2>1, <2>2 DEF TickedInv, KeyOf
<1>9. ASSUME ticked' = FALSE PROVE TickedInv'
  BY <1>9 DEF TickedInv
<1>10. ASSUME NEW e \in Entity, NEW values \in Imports[e], ImportRecord(e, values)
       PROVE  TickedInv'
  BY <1>1, <1>10, ImportCalls
<1> QED BY <1>2, <1>3, <1>4, <1>5, <1>6, <1>7, <1>8, <1>9, <1>10, CoreStep
        DEF Again, Rewrites, NextDay, Restart

(* Two tasks of one step of a rule for one record: of two periods.         *)
Entered(x, n) ==
  {k \in (1..n) \ behind :
     journal[k].id = x /\ journal[k].kind \in {"created", "moved"}}

LEMMA PeriodsDiffer ==
  ASSUME CoreInv, TaskInv, NEW m \in DOMAIN journal, NEW n \in DOMAIN journal, m < n,
         journal[m].kind = "task", journal[n].kind = "task", journal[m].body = journal[n].body,
         Rules[journal[n].body[1]].on = "stuck", journal[n].body[3] \notin rewritten
  PROVE  Entered(journal[n].body[3], m) # Entered(journal[n].body[3], n)
<1> SUFFICES ASSUME Entered(journal[n].body[3], m) = Entered(journal[n].body[3], n) PROVE FALSE
  OBVIOUS
<1>1. PICK f, x, p, q, state : /\ f = journal[n].body /\ x = f[3] /\ state = Text(Rules[f[1]].state)
                               /\ p = journal[m].key[5] /\ q = journal[n].key[5]
  OBVIOUS
<1>2. /\ DOMAIN journal = 1..Len(journal) /\ Len(journal) \in Nat
      /\ Heeded \in SUBSET Nat /\ Heeded \subseteq DOMAIN journal
  BY CoreFacts
<1>3. PeriodFits(m) /\ PeriodFits(n)
  BY DEF TaskInv
<1>4. /\ p \in Heeded /\ p < m /\ Enters(journal[p], x)
      /\ journal[p].kind = "moved" => journal[p].body = state
      /\ \A k \in (p + 1)..(m - 1) :
           Enters(journal[k], x) => journal[k].kind = "moved" /\ journal[k].body # state
  BY <1>1, <1>3 DEF PeriodFits
<1>5. /\ q \in Heeded /\ q < n /\ Enters(journal[q], x)
      /\ journal[q].kind = "moved" => journal[q].body = state
      /\ \A k \in (q + 1)..(n - 1) :
           Enters(journal[k], x) => journal[k].kind = "moved" /\ journal[k].body # state
  BY <1>1, <1>3 DEF PeriodFits
<1>6. q \in Entered(x, n)
  BY <1>2, <1>5 DEF Entered, Enters, Heeded
<1>7. q <= m
  BY <1>1, <1>2, <1>6 DEF Entered
<1>8. q # m
  BY <1>5 DEF Enters
<1>9. ~(p < q)
  <2> SUFFICES ASSUME p < q PROVE FALSE
    OBVIOUS
  <2>1. q \in (p + 1)..(m - 1)
    BY <1>2, <1>4, <1>5, <1>7, <1>8
  <2> QED BY <1>4, <1>5, <2>1
<1>10. ~(q < p)
  <2> SUFFICES ASSUME q < p PROVE FALSE
    OBVIOUS
  <2>1. p \in (q + 1)..(n - 1)
    BY <1>2, <1>4, <1>5
  <2> QED BY <1>4, <1>5, <2>1
<1>11. p = q
  <2>1. p \in Nat /\ q \in Nat
    BY <1>2, <1>4, <1>5
  <2> QED BY ONLY <2>1, <1>9, <1>10
<1>12. TaskFits(journal[m]) /\ TaskFits(journal[n]) /\ KeysOnce(journal)
  BY DEF CoreInv, JournalInv, EventFits
<1>13. journal[m].key = journal[n].key /\ journal[n].key \notin Keys \cup {NoKey}
  <2>1. journal[m].key = <<Rules[f[1]].on, f[1], f[2], f[3], p>>
    BY <1>1, <1>12 DEF TaskFits
  <2>2. journal[n].key = <<Rules[f[1]].on, f[1], f[2], f[3], q>>
    BY <1>1, <1>12 DEF TaskFits
  <2>3. /\ f[1] \in DOMAIN Rules /\ f[2] \in 1..Rules[f[1]].steps /\ f[3] \in {NoField} \cup Minted
        /\ q \in 1..(MaxEvents + MaxDay)
    BY <1>1, <1>12 DEF TaskFits
  <2> QED BY <1>11, <2>1, <2>2, <2>3, NoCallersKey
<1>14. m = n
  BY <1>12, <1>13 DEF KeysOnce
<1> QED BY <1>2, <1>14

LEMMA SameDaySameTask ==
  ASSUME CoreInv, NEW m \in DOMAIN journal, NEW n \in DOMAIN journal,
         journal[m].kind = "task", journal[n].kind = "task", journal[m].body = journal[n].body,
         Rules[journal[n].body[1]].on = "schedule", journal[m].day = journal[n].day
  PROVE  m = n
<1>1. PICK f : f = journal[n].body
  OBVIOUS
<1>2. TaskFits(journal[m]) /\ TaskFits(journal[n]) /\ KeysOnce(journal)
  BY DEF CoreInv, JournalInv, EventFits
<1>3. PICK p : p = journal[n].day
  OBVIOUS
<1>4. journal[m].key = <<Rules[f[1]].on, f[1], f[2], f[3], p>>
  BY <1>1, <1>2, <1>3 DEF TaskFits
<1>5. journal[n].key = <<Rules[f[1]].on, f[1], f[2], f[3], p>>
  BY <1>1, <1>2, <1>3 DEF TaskFits
<1>6. /\ f[1] \in DOMAIN Rules /\ f[2] \in 1..Rules[f[1]].steps /\ f[3] \in {NoField} \cup Minted
      /\ p \in 1..(MaxEvents + MaxDay)
  BY <1>1, <1>2, <1>3 DEF TaskFits
<1>7. journal[n].key \notin Keys \cup {NoKey}
  BY <1>5, <1>6, NoCallersKey
<1> QED BY <1>2, <1>4, <1>5, <1>7 DEF KeysOnce

(* What is due, and its task.                                              *)
LEMMA DueHasTask ==
  ASSUME CoreInv, TaskInv, TickedInv, ticked, NEW f \in Firings,
         Rules[f[1]].on = "stuck" => f[3] \notin rewritten
  PROVE  \E n \in TasksFor(f) \cap db.tasks :
           IF Rules[f[1]].on = "schedule" THEN journal[n].day = day
           ELSE Entered(f[3], n) = Entered(f[3], Len(journal))
<1>1. IsFiring(f)
  BY FiringIs
<1>2. PICK n \in db.tasks : journal[n].key = KeyOf(f)
  BY DEF TickedInv, KeyOf
<1>3. /\ n \in Heeded /\ n \in DOMAIN journal /\ journal[n].kind = "task" /\ EventFits(journal[n])
  BY CoreFacts DEF CoreInv, Told, TasksTold, JournalInv
<1>4. TaskFits(journal[n])
  BY <1>3 DEF EventFits
<1>5. journal[n].body = f
  <2>1. PICK g : g = journal[n].body /\ g = <<g[1], g[2], g[3]>>
    BY <1>4 DEF TaskFits
  <2>2. journal[n].key = <<Rules[g[1]].on, g[1], g[2], g[3], journal[n].key[5]>>
    BY <1>4, <2>1 DEF TaskFits
  <2>3. KeyOf(f) = <<Rules[f[1]].on, f[1], f[2], f[3], KeyOf(f)[5]>>
    BY <1>1, PeriodIs
  <2>4. g[1] = f[1] /\ g[2] = f[2] /\ g[3] = f[3]
    BY <1>2, <2>2, <2>3
  <2>5. f = <<f[1], f[2], f[3]>>
    BY <1>1 DEF IsFiring
  <2> QED BY <2>1, <2>4, <2>5
<1>6. n \in TasksFor(f) \cap db.tasks
  BY <1>3, <1>5 DEF TasksFor
<1>7. CASE Rules[f[1]].on = "schedule"
  <2>1. KeyOf(f)[5] = day
    BY <1>1, <1>7, PeriodIs
  <2>2. journal[n].key[5] = journal[n].day
    BY <1>4, <1>5, <1>7 DEF TaskFits
  <2>3. journal[n].day = day
    BY <1>2, <2>1, <2>2
  <2> QED BY <1>6, <1>7, <2>3
<1>8. CASE Rules[f[1]].on = "stuck"
  <2>1. PICK x, p : x = f[3] /\ p = db.since[x]
    OBVIOUS
  <2>2. KeyOf(f)[5] = p /\ x \in DOMAIN db.records
    BY <1>1, <1>8, <2>1, PeriodIs DEF Of
  <2>3. p < n
    <3>1. PeriodFits(n)
      BY <1>3, <1>5, <1>8 DEF TaskInv
    <3> QED BY <1>2, <2>2, <3>1 DEF PeriodFits
  <2>4. \A m \in Heeded : Enters(journal[m], x) => m <= p
    BY <1>8, <2>1, <2>2, SinceIsLast
  <2>5. /\ DOMAIN journal = 1..Len(journal) /\ Len(journal) \in Nat /\ n \in 1..Len(journal) /\ p \in Nat
    BY <1>3, <2>1, <2>2, CoreFacts, SinceIs
  <2>6. ASSUME NEW k \in Entered(x, Len(journal)) PROVE k \in Entered(x, n)
    <3>1. k \in 1..Len(journal) /\ k \in Heeded /\ Enters(journal[k], x)
      BY <2>5 DEF Entered, Heeded, Enters
    <3>2. k <= p
      BY <2>4, <3>1
    <3>3. k \in 1..n
      BY <2>3, <2>5, <3>1, <3>2
    <3> QED BY <3>3 DEF Entered
  <2>7. ASSUME NEW k \in Entered(x, n) PROVE k \in Entered(x, Len(journal))
    BY <2>5 DEF Entered
  <2>8. Entered(x, n) = Entered(x, Len(journal))
    BY <2>6, <2>7
  <2> QED BY <1>6, <1>8, <2>1, <2>8
<1> QED BY <1>1, <1>7, <1>8 DEF IsFiring

LEMMA PeriodsOnce == CoreInv /\ TaskInv /\ TickedInv => EveryPeriodOnce
<1> SUFFICES ASSUME CoreInv, TaskInv, TickedInv PROVE EveryPeriodOnce
  OBVIOUS
<1> DEFINE same(f, m, n) ==
             IF Rules[f[1]].on = "schedule" THEN journal[m].day = journal[n].day
             ELSE Entered(f[3], m) = Entered(f[3], n)
           due(f, n) ==
             IF Rules[f[1]].on = "schedule" THEN journal[n].day = day
             ELSE same(f, n, Len(journal))
<1>1. ASSUME NEW n \in DOMAIN journal, journal[n].kind = "task",
             Rules[journal[n].body[1]].on = "stuck" => journal[n].body[3] \notin rewritten,
             NEW m \in TasksFor(journal[n].body) \ {n}, same(journal[n].body, m, n)
      PROVE  FALSE
  <2>1. /\ m \in DOMAIN journal /\ journal[m].kind = "task" /\ journal[m].body = journal[n].body
        /\ m # n
    BY DEF TasksFor
  <2>2. TaskFits(journal[n])
    BY <1>1 DEF CoreInv, JournalInv, EventFits
  <2>3. Rules[journal[n].body[1]].on \in {"schedule", "stuck"}
    BY <2>2 DEF TaskFits
  <2>4. CASE Rules[journal[n].body[1]].on = "schedule"
    BY <1>1, <2>1, <2>4, SameDaySameTask
  <2>5. CASE Rules[journal[n].body[1]].on = "stuck"
    <3>1. Entered(journal[n].body[3], m) = Entered(journal[n].body[3], n)
      BY <1>1, <2>5
    <3>2. m < n \/ n < m
      BY <2>1, CoreFacts
    <3>3. CASE m < n
      BY <1>1, <2>1, <2>5, <3>1, <3>3, PeriodsDiffer
    <3>4. CASE n < m
      <4>1. Entered(journal[m].body[3], n) # Entered(journal[m].body[3], m)
        BY <1>1, <2>1, <2>5, <3>4, PeriodsDiffer
      <4> QED BY <2>1, <3>1, <4>1
    <3> QED BY <3>2, <3>3, <3>4
  <2> QED BY <2>3, <2>4, <2>5
<1>2. ASSUME ticked, NEW f \in Firings, Rules[f[1]].on = "stuck" => f[3] \notin rewritten
      PROVE  \E n \in TasksFor(f) \cap db.tasks : due(f, n)
  <2>1. PICK n \in TasksFor(f) \cap db.tasks :
          IF Rules[f[1]].on = "schedule" THEN journal[n].day = day
          ELSE Entered(f[3], n) = Entered(f[3], Len(journal))
    BY <1>2, DueHasTask
  <2>2. due(f, n)
    BY <2>1
  <2> HIDE DEF due
  <2> QED BY <2>2
<1> QED BY <1>1, <1>2 DEF EveryPeriodOnce, Entered

(* A record that no repeated call wrote is in the state its last entry     *)
(* brought it to, a stuck one's task belongs to the stay its key names, and*)
(* after a heartbeat without errors every key that is due has its task     *)
(* (automation.go, Tick; workflow.go, applyTransition).                    *)
THEOREM Periods == Spec => [](StateInv /\ TaskInv /\ TickedInv)
<1>1. Init => CoreInv /\ StateInv /\ TaskInv /\ TickedInv
  BY CoreInit, StateInit, TaskInit
<1>2. CoreInv /\ StateInv /\ TaskInv /\ TickedInv /\ [Next]_vars
        => (CoreInv /\ StateInv /\ TaskInv /\ TickedInv)'
  BY CoreKept, StateStep, TaskStep, TickedStep
<1> QED BY <1>1, <1>2, PTL DEF Spec

(* One task for a rule's step, a record and a period, however often the    *)
(* heartbeat beats and whatever was lost; and after one without errors     *)
(* whatever is due has its task in the pool (automation.go, Tick; tasks.go,*)
(* createTask).  Not so the stays of a record that a repeated call wrote.  *)
THEOREM EveryPeriod == Spec => []EveryPeriodOnce
BY Projection, Periods, PeriodsOnce, PTL
=============================================================================
