---------------------------- MODULE MCDocuments -----------------------------
(***************************************************************************)
(* Documents with a number, a unique code, a reference that brings a       *)
(* default, a workflow field, and a settings singleton; links between      *)
(* documents and to the settings; a daily rule per document that is done   *)
(* or that one other refers to, as a computed field counts, one for        *)
(* the node, and one for documents stuck in the open state.  A new era     *)
(* imports documents of one code.                                          *)
(***************************************************************************)
EXTENDS Documents

Language == INSTANCE Conditions

MCCondHolds(t, c) == Language!EvalWhere(t, c)

Scalar(s) == [kind |-> "scalar", scalar |-> s, values |-> {}, target |-> NoField]
Enum(values) == [kind |-> "enum", scalar |-> NoField, values |-> values, target |-> NoField]
Ref(e) == [kind |-> "ref", scalar |-> NoField, values |-> {}, target |-> e]

Field(name, type) ==
  [name |-> name, type |-> type, required |-> FALSE, unique |-> FALSE, computed |-> FALSE,
   default |-> <<>>, format |-> NoField]

MCDecl ==
  ("Doc" :> [fields |-> << [Field("no", Scalar("serial")) EXCEPT !.format = "N"],
                           [Field("code", Scalar("string")) EXCEPT !.required = TRUE, !.unique = TRUE],
                           Field("parent", Ref("Doc")),
                           [Field("level", Scalar("percent")) EXCEPT !.default = <<"parent", "level">>],
                           [Field("state", Enum({"open", "done"})) EXCEPT !.default = <<"open">>],
                           [Field("parts", Scalar("float")) EXCEPT !.computed = TRUE] >>,
             constraints |-> {{"parent", "level"}}, singleton |-> FALSE])
  @@ ("Conf" :> [fields |-> << Field("code", Scalar("string")) >>,
                 constraints |-> {}, singleton |-> TRUE])

(* parts: how many documents have this one as their parent. *)
MCWithComputed(e, id, values, now, records) ==
  IF e # "Doc" THEN values
  ELSE Over(Entry("parts", Num(Cardinality(
              {x \in Of(e, records) : ValueAt(records[x].values, "parent") = Text(id)}))), values)

MCIds == <<"d1", "d2", "d3">>

MCKeys == {<<"k">>}
MCNoKey == <<>>

MCStateField == ("Doc" :> "state") @@ ("Conf" :> NoField)

MCLinkDecls ==
  << [from |-> "Doc", to |-> "Doc", forward |-> "blocks", inverse |-> "blocked_by"],
     [from |-> "Doc", to |-> "Conf", forward |-> "uses", inverse |-> "used_by"] >>

MCRules ==
  << [on |-> "schedule", entity |-> "Doc", steps |-> 1, state |-> NoField, days |-> 0,
      when |-> <<Language!Word(<<"state">>), Language!Mark("="), Language!Word(<<"done">>),
                 Language!Word(<<"or">>),
                 Language!Word(<<"parts">>), Language!Mark("="), Language!Number(1)>>],
     [on |-> "stuck", entity |-> "Doc", steps |-> 1, state |-> "open", days |-> 1, when |-> <<>>],
     [on |-> "schedule", entity |-> NoField, steps |-> 1, state |-> NoField, days |-> 0, when |-> <<>>] >>

MCGiven ==
  ("Doc" :> {[code |-> Text("a"), level |-> Num(5)],
             [code |-> Text("b"), parent |-> Text("d1")],
             [code |-> Text("b"), level |-> Num(101)]})
  @@ ("Conf" :> {[code |-> Nil]})

MCImports ==
  ("Doc" :> {[code |-> Text("a"), parent |-> Text("d2"), parts |-> Num(1)]}) @@ ("Conf" :> {})

MCChanges ==
  ("Doc" :> {[code |-> Text("b")], [no |-> Text("N1-2"), parent |-> Text("d2")]}) @@ ("Conf" :> {})

MCFormat(format, year, n) == format \o ToString(year) \o "-" \o ToString(n)

MCParseFloat(s) == {n \in 1..5 : ToString(n) = s}

MCWellFormed == [f \in Formats |-> {}]

MCMost ==
  [kind \in {"created", "updated", "moved", "linked", "unlinked", "comment", "task"} |->
     CASE kind = "created" -> 3 [] kind = "task" -> MaxEvents
       [] kind = "comment" -> 2 [] OTHER -> 1]
=============================================================================
