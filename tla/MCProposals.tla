---------------------------- MODULE MCProposals ----------------------------
(***************************************************************************)
(* A small pack of documents and what authors may submit next: packs that  *)
(* grow it in different directions, one that takes its workflow and a      *)
(* label away, packs that are not additive, and packs that do not compile, *)
(* one for each kind of check.                                             *)
(***************************************************************************)
EXTENDS Proposals

CONSTANT nothing

labelsOf(options) == Field("labels", MultiEnumType(options), nothing)
labels == labelsOf(<<"urgent", "minor">>)

Doc(fields) == Entity("Doc", fields \o <<labels>>, {"title"})

title == Field("title", ScalarType("string"), nothing)
statusOf(values) == Field("status", EnumType(values), "draft")
status == statusOf(<<"draft", "done">>)
kind == Field("kind", RefType("core.Kind"), nothing)

Step(from, to, action, approval) ==
  [from |-> from, to |-> to, action |-> action, auto |-> FALSE,
   assignee |-> nothing, agent |-> FALSE, approval |-> approval]

Flow(steps) == [entity |-> "Doc", field |-> "status", transitions |-> steps]

finish == Step("draft", "done", "finish", "Clerk")

Item(verb, entity, names) ==
  [verb |-> verb, entity |-> entity, field |-> nothing, all |-> FALSE, names |-> names]

Rule(verb, item) == [verb |-> verb, items |-> {item}]

clerk == [role |-> "Clerk", rules |-> {Rule("approve", Item("approve", nothing, {"finish"}))}]
bot == [role |-> "Bot", rules |-> {Rule("deny", Item("delete", "Doc", {}))}]
loose == [role |-> "Bot", rules |-> {Rule("read", Item("read", "Doc", {}))}]

Stuck(entity, state) ==
  [on |-> "stuck", entity |-> entity, state |-> state,
   actions |-> << [kind |-> "escalate", role |-> "Clerk"] >>]

Base ==
  [entities |-> << Doc(<<title, status>>) >>,
   roles |-> << [name |-> "Clerk", agent |-> FALSE] >>,
   perms |-> {clerk}, workflows |-> << Flow(<<finish>>) >>,
   automations |-> <<>>, uis |-> {}, tiles |-> {}, links |-> <<>>]

botRole == [name |-> "Bot", agent |-> TRUE]

Grown(fields, steps, rules) ==
  [Base EXCEPT !.entities = << Doc(fields) >>, !.workflows = << Flow(steps) >>,
               !.automations = rules]

MCPack ==
  {"base", "bot", "field", "enum", "drop", "retype", "rename", "reorder",
   "truncate", "unbounded", "stray", "stuck", "less"}

MCSource(p) ==
  CASE p = "base" -> Base
    [] p = "bot" -> [Base EXCEPT !.roles = @ \o <<botRole>>, !.perms = @ \cup {bot},
                                 !.tiles = {[entity |-> "Doc", fields |-> {"status"}]}]
    [] p = "field" -> Grown(<<title, status, kind>>, <<finish>>, <<Stuck("Doc", "draft")>>)
    [] p = "enum" -> Grown(<<title, statusOf(<<"draft", "done", "void">>)>>,
                           <<finish, Step("any", "void", "cancel", nothing)>>, <<>>)
    [] p = "drop" -> Grown(<<status>>, <<finish>>, <<>>)
    [] p = "retype" -> Grown(<<Field("title", ScalarType("int"), nothing), status>>, <<finish>>, <<>>)
    [] p = "rename" -> Grown(<<title, statusOf(<<"draft", "sealed">>)>>,
                             <<Step("draft", "sealed", "finish", "Clerk")>>, <<>>)
    [] p = "reorder" -> Grown(<<title, statusOf(<<"done", "draft">>)>>, <<finish>>, <<>>)
    [] p = "truncate" -> [Base EXCEPT !.entities = << Doc(<<title, statusOf(<<"draft">>)>>) >>,
                                      !.workflows = <<>>, !.perms = {}]
    [] p = "unbounded" -> [Base EXCEPT !.roles = @ \o <<botRole>>, !.perms = @ \cup {loose}]
    [] p = "stray" -> Grown(<<title, status>>, <<finish, Step("done", "gone", "lose", nothing)>>, <<>>)
    [] p = "stuck" -> Grown(<<title, status, kind>>, <<finish>>, <<Stuck("core.Kind", "draft")>>)
    [] p = "less" ->
         [Base EXCEPT !.entities = << Entity("Doc", <<title, status, labelsOf(<<"urgent">>)>>, {"title"}) >>,
                      !.workflows = <<>>, !.perms = {}]
=============================================================================
