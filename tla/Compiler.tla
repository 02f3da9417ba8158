------------------------------ MODULE Compiler ------------------------------
(***************************************************************************)
(* What the compiler accepts and the model it builds (internal/dsl): the   *)
(* semantic analysis of a parsed pack, as pure operators.  A pack that is  *)
(* refused leaves nothing behind, so the diagnostics are one predicate,    *)
(* Compiles, and Model is read only of packs that compile.                 *)
(*                                                                         *)
(* A parsed pack is a record of sequences and sets: names are strings,     *)
(* expressions and labels are left out.  NoName stands for a clause that   *)
(* the source does not have.                                               *)
(***************************************************************************)
EXTENDS Integers, Sequences, FiniteSets

CONSTANTS
  CoreNames,   \* the names under the prefix core.
  NoName

BuiltIn == {"core.User", "core.Calendar"}

Elements(s) == {s[i] : i \in DOMAIN s}

DistinctBy(s, Key(_)) == \A i, j \in DOMAIN s : Key(s[i]) = Key(s[j]) => i = j

Name(x) == x.name

-----------------------------------------------------------------------------
(* Types and entities. *)
Type(kind, scalar, values, target) ==
  [kind |-> kind, scalar |-> scalar, values |-> values, target |-> target]

ScalarType(s) == Type("scalar", s, <<>>, NoName)
EnumType(values) == Type("enum", NoName, values, NoName)
MultiEnumType(values) == Type("multienum", NoName, values, NoName)
RefType(target) == Type("ref", NoName, <<>>, target)
ArrayRefType(target) == Type("arrayref", NoName, <<>>, target)
TagsType == Type("tags", NoName, <<>>, NoName)

Field(name, type, default) == [name |-> name, type |-> type, default |-> default]

Entity(name, fields, unique) ==
  [name |-> name, fields |-> fields, unique |-> unique]

FieldNames(e) == {f.name : f \in Elements(e.fields)}

(* findField: the first of that name; accepted entities have one at most.  *)
FindField(e, name) == {f \in Elements(e.fields) : f.name = name}

FieldOf(e, name) == CHOOSE f \in FindField(e, name) : TRUE

(* coreModelEntities: data every node has. *)
Calendar ==
  LET str == ScalarType("string")
      int == ScalarType("int")
  IN  Entity("core.Calendar",
        << Field("code", str, NoName), Field("name", str, NoName),
           Field("workdays", MultiEnumType(<<"Mon", "Tue", "Wed", "Thu", "Fri", "Sat", "Sun">>), NoName),
           Field("work_start", int, "540"), Field("work_end", int, "1080"),
           Field("holidays", TagsType, NoName),
           Field("extra_workdays", TagsType, NoName) >>, {})

(* dictionaryEntity: the directory behind an mdg[Name] field. *)
Dictionary(name) ==
  Entity(name,
    << Field("code", ScalarType("string"), NoName),
       Field("name", ScalarType("string"), NoName),
       Field("parent", RefType(name), NoName),
       Field("active", ScalarType("bool"), "true") >>, {})

(* A dictionary is provisioned for a ref field only, not for array[ref].   *)
Dictionaries(ast) ==
  {f.type.target : f \in {f \in UNION {Elements(e.fields) : e \in Elements(ast.entities)} :
                            f.type.kind = "ref" /\ f.type.target \in CoreNames}}
    \ BuiltIn

Entities(ast) ==
  LET declared == {e.name : e \in Elements(ast.entities)}
  IN  [n \in declared \cup {"core.Calendar"} \cup Dictionaries(ast) |->
         IF n \in declared THEN CHOOSE e \in Elements(ast.entities) : e.name = n
         ELSE IF n = "core.Calendar" THEN Calendar
         ELSE Dictionary(n)]

-----------------------------------------------------------------------------
(* Diagnostics about entities and fields. *)
RefResolves(target, entities) ==
  target \in DOMAIN entities \/ target = "core.User"

FieldCompiles(f, entities) ==
  CASE f.type.kind \in {"ref", "arrayref"} -> RefResolves(f.type.target, entities)
    [] f.type.kind = "enum" ->
         f.default = NoName \/ f.default \in Elements(f.type.values)
    [] OTHER -> TRUE

EntityCompiles(e, entities) ==
  /\ DistinctBy(e.fields, Name)
  /\ \A f \in Elements(e.fields) : FieldCompiles(f, entities)
  /\ e.unique \subseteq FieldNames(e)

-----------------------------------------------------------------------------
(* Roles and permissions.  A rule is a verb and its items; an item names   *)
(* an entity, perhaps a field, or, for act and approve, a set of actions.  *)
(* The blocks of one role are merged.                                      *)
RoleNames(ast) == {r.name : r \in Elements(ast.roles)}

RulesOf(ast, role) == UNION {b.rules : b \in {b \in ast.perms : b.role = role}}

Perms(ast) == [role \in {b.role : b \in ast.perms} |-> RulesOf(ast, role)]

ItemCompiles(item, entities) ==
  \/ item.all \/ item.entity = NoName
  \/ /\ item.entity \in DOMAIN entities
     /\ item.field \in {NoName, "*"} \cup FieldNames(entities[item.entity])

(* An agent role needs a deny rule, in one of its blocks at least.         *)
AgentsAreBounded(ast) ==
  \A r \in Elements(ast.roles) :
    r.agent => \E rule \in RulesOf(ast, r.name) : rule.verb = "deny"

RoleExists(ast, role, mustBeAgent) ==
  \E r \in Elements(ast.roles) : r.name = role /\ (mustBeAgent => r.agent)

RoleClause(ast, role, mustBeAgent) ==
  role = NoName \/ RoleExists(ast, role, mustBeAgent)

-----------------------------------------------------------------------------
(* Workflows.  One per entity, over a declared enum field; actions are     *)
(* unique within a workflow, auto transitions have none.                   *)
States(e, field) == Elements(FieldOf(e, field).type.values)

TransitionCompiles(ast, t, states) ==
  /\ t.from \in states \cup {"any"} /\ t.to \in states
  /\ RoleClause(ast, t.assignee, t.agent)
  /\ RoleClause(ast, t.approval, FALSE)

Named(w) == SelectSeq(w.transitions, LAMBDA t : ~t.auto)

WorkflowCompiles(ast, w, entities) ==
  /\ w.entity \in DOMAIN entities
  /\ \E f \in FindField(entities[w.entity], w.field) : f.type.kind = "enum"
  /\ \A t \in Elements(w.transitions) :
       TransitionCompiles(ast, t, States(entities[w.entity], w.field))
  /\ DistinctBy(Named(w), LAMBDA t : t.action)

Workflows(ast) ==
  [n \in {w.entity : w \in Elements(ast.workflows)} |->
     CHOOSE w \in Elements(ast.workflows) : w.entity = n]

Actions(ast) ==
  UNION {{t.action : t \in Elements(Named(w))} : w \in Elements(ast.workflows)}

NamesExist(ast) ==
  \A b \in ast.perms : \A rule \in b.rules : \A item \in rule.items :
    item.verb \in {"act", "approve"} => item.names \subseteq Actions(ast)

-----------------------------------------------------------------------------
(* Automation rules.  A rule bound to no entity is a schedule rule. *)
(* A mutant: the state is checked only where there is a workflow. *)
StuckAnywhere(ast, rule, entities) ==
  rule.entity \in DOMAIN Workflows(ast) =>
    rule.state \in States(entities[rule.entity], Workflows(ast)[rule.entity].field)

StuckCompiles(ast, rule, entities) ==
  /\ rule.entity \in DOMAIN Workflows(ast)
  /\ rule.state \in States(entities[rule.entity], Workflows(ast)[rule.entity].field)

RuleCompiles(ast, rule, entities) ==
  /\ rule.entity # NoName =>
       /\ rule.entity \in DOMAIN entities
       /\ rule.on = "stuck" => StuckCompiles(ast, rule, entities)
  /\ \A a \in Elements(rule.actions) :
       a.kind \in {"agent", "escalate"} => RoleExists(ast, a.role, a.kind = "agent")

-----------------------------------------------------------------------------
(* Blocks that only name fields: ui (list, filters, board) and dashboard   *)
(* tiles; and links, whose two names are unique on their entities.         *)
NamesFields(x, entities) ==
  /\ x.entity \in DOMAIN entities
  /\ x.fields \subseteq FieldNames(entities[x.entity])

Marks(l) ==
  IF l.from = l.to /\ l.forward = l.inverse THEN << <<l.from, l.forward>> >>
  ELSE << <<l.from, l.forward>>, <<l.to, l.inverse>> >>

LinksCompile(ast, entities) ==
  /\ \A l \in Elements(ast.links) : {l.from, l.to} \subseteq DOMAIN entities
  /\ \A i, j \in DOMAIN ast.links :
       LET a == Marks(ast.links[i])
           b == Marks(ast.links[j])
       IN  \A m \in DOMAIN a, n \in DOMAIN b : a[m] = b[n] => i = j /\ m = n

-----------------------------------------------------------------------------
(* Compile: no diagnostic was added. *)
Compiles(ast) ==
  LET entities == Entities(ast)
  IN  /\ DistinctBy(ast.entities, Name)
      /\ \A n \in DOMAIN entities : EntityCompiles(entities[n], entities)
      /\ DistinctBy(ast.roles, Name)
      /\ \A b \in ast.perms :
           /\ b.role \in RoleNames(ast)
           /\ \A rule \in b.rules : \A item \in rule.items : ItemCompiles(item, entities)
      /\ AgentsAreBounded(ast)
      /\ DistinctBy(ast.workflows, LAMBDA w : w.entity)
      /\ \A w \in Elements(ast.workflows) : WorkflowCompiles(ast, w, entities)
      /\ \A rule \in Elements(ast.automations) : RuleCompiles(ast, rule, entities)
      /\ \A x \in ast.uis \cup ast.tiles : NamesFields(x, entities)
      /\ NamesExist(ast)
      /\ LinksCompile(ast, entities)

Model(ast) ==
  [entities |-> Entities(ast), roles |-> RoleNames(ast), perms |-> Perms(ast),
   workflows |-> Workflows(ast), automations |-> Elements(ast.automations)]
=============================================================================
