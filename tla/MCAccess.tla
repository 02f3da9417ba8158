------------------------------ MODULE MCAccess ------------------------------
(***************************************************************************)
(* Three actors, documents that refer to one another, a calendar, and      *)
(* definitions whose read rules narrow by one index, by two, by a field    *)
(* another definition does not index, by a path, or not at all.            *)
(*                                                                         *)
(* The three questions are asked one after the other, each from the        *)
(* initial state: which data is seen under which index, how a caller's     *)
(* condition is read over the first documents, and what time counts.       *)
(***************************************************************************)
EXTENDS Access

CONSTANT Negated   \* whether a definition with a negated scope term runs

w(s) == Word(<<s>>)
Is(f, x) == <<w(f), Mark("="), x>>
Mine == Is("owner", w("$me"))
Here == Is("region", Word(<<"$me", "region">>))

MCActors ==
  {[id |-> "ann", role |-> "clerk", attrs |-> [region |-> Text("north")]],
   [id |-> "bob", role |-> "clerk", attrs |-> <<>>],
   [id |-> "zoe", role |-> "boss", attrs |-> [region |-> Num(1)]]}

Stored(name, type) == [name |-> name, type |-> type, computed |-> <<>>]
Computes(name, term) == [name |-> name, type |-> "float", computed |-> term]

Fields(e) ==
  IF e = "Doc"
  THEN << Stored("region", "string"), Stored("owner", "string"), Stored("amount", "money"),
          Stored("parent", "ref"), Stored("opened", "datetime"), Stored("scan", "file"),
          Computes("age", <<"since", "min", <<"opened">>, <<"ru">>>>),
          Computes("parts", <<"sum", "Doc", "amount", "parent">>) >>
  ELSE << Stored("code", "string"), Stored("work_start", "int"), Stored("work_end", "int") >>

Item(verb, field, where) ==
  [verb |-> verb, all |-> FALSE, entity |-> "Doc", field |-> field, where |-> where]

Rule(verb, items) == [verb |-> verb, items |-> items]
ReadsIf(where) == Rule("read", {Item("read", "", where)})
Everything == Rule("full", {[Item("full", "", <<>>) EXCEPT !.all = TRUE]})

Model(clerk, boss) ==
  [fields |-> [e \in Entities |-> Fields(e)], perms |-> ("clerk" :> clerk) @@ ("boss" :> boss)]

Scoped ==
  Model(<<ReadsIf(Here),
          Rule("deny", {Item("read", "amount", <<w("not")>> \o Mine)})>>, <<Everything>>)
TwoWays ==
  Model(<<ReadsIf(Mine), Rule("full", {Item("full", "", Here \o <<w("and")>> \o Mine)})>>,
        <<ReadsIf(Here)>>)
ByPath ==
  Model(<<ReadsIf(<<Word(<<"parent", "owner">>), Mark("="), w("$me")>>),
          Rule("deny", {Item("read", "", <<w("amount"), Mark(">"), Quoted(<<"1">>)>>)})>>,
        <<ReadsIf(Mine \o <<w("or")>> \o Here)>>)
NoBoss ==
  [Scoped EXCEPT !.perms = ("clerk" :> <<Rule("read", {Item("read", "scan", <<>>)})>>)]
Elsewhere ==
  Model(<<ReadsIf(<<w("not")>> \o Here)>>, <<Everything>>)

MCModels ==
  {Scoped, TwoWays, ByPath, NoBoss} \cup (IF Negated THEN {Elsewhere} ELSE {})

MCLegal ==
  [Doc |->
     {[region |-> Text("north"), owner |-> Text("ann"), amount |-> Num(1), scan |-> <<"file", "h1">>],
      [region |-> Text("south"), parent |-> Text("d1"), amount |-> Num(2), opened |-> <<"time", 0>>],
      [region |-> Nil, owner |-> Text("bob"), parent |-> Text("d1"), scan |-> <<"file", "h2">>],
      [region |-> Num(1), owner |-> Text("ann"), parent |-> Text("d2")]}]
  @@ ("core.Calendar" :> {})

MCIds == ("Doc" :> {"d1", "d2", "d3"}) @@ ("core.Calendar" :> {})

Valued(e, region) ==
  [entity |-> e, values |-> CHOOSE v \in MCLegal[e] : v.region = Text(region)]

MCFirstRows ==
  ("d1" :> Valued("Doc", "north")) @@ ("d2" :> Valued("Doc", "south"))
  @@ ("ru" :> [entity |-> "core.Calendar",
            values |-> [code |-> Text("ru"), workdays |-> <<"days", {0, 1}>>,
                        work_start |-> Num(1), work_end |-> Num(3),
                        holidays |-> <<"days", {1, 3}>>, extra_workdays |-> <<"days", {2, 3}>>]])
  @@ ("us" :> [entity |-> "core.Calendar", values |-> [code |-> Text("us")]])

MCParseFloat(s) == {n \in {1} : ToString(n) = s}

MCStandard == NewCalendar({0, 2}, 0, 3, {}, {})

MCTokens ==
  {w("region"), w("and"), w("or"), w("not"), w("in")}
    \cup {Mark(s) : s \in {"(", ")", "=", "[", "]"}}

ASSUME ScopesArePlain = ~Negated
ASSUME FilesAreDeclared

(* A step of one question is taken only where the others have not begun.   *)
Untouched == rows = FirstRows /\ model = FirstModel /\ \A e \in Entities : index[e] = {}

Apart ==
  /\ text' # <<>> => Untouched /\ now' = 0 /\ UNCHANGED <<rows, model, index>>
  /\ now' # 0 => Untouched /\ UNCHANGED <<rows, model, index>>

MCNext == Next /\ Apart

MCSpec == Init /\ [][MCNext]_vars
=============================================================================
