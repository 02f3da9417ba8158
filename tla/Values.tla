------------------------------- MODULE Values -------------------------------
(***************************************************************************)
(* Values of fields, and the operands that stand for them: what a path, a  *)
(* $-word or a literal gives in a record (internal/engine/expr.go).  A     *)
(* value is a pair of its kind and what it holds, Nil the JSON null.       *)
(***************************************************************************)
EXTENDS Integers, Sequences, FiniteSets, TLC

CONSTANT ParseFloat(_)   \* the number a text reads as: a set, empty if none

Nil == <<"nil">>
Text(s) == <<"text", s>>
Num(n) == <<"num", n>>
Bool(b) == <<"bool", b>>
Money(amount) == <<"money", amount>>

(* Maps: one entry, and the entries of m written over those of old.        *)
Entry(x, v) == [y \in {x} |-> v]
Over(m, old) == [x \in DOMAIN m \cup DOMAIN old |-> IF x \in DOMAIN m THEN m[x] ELSE old[x]]

ToFloat(v) == IF v[1] \in {"num", "money"} THEN {v[2]} ELSE {}

Reserved == {"$me", "$self", "$now"}

(* The context of an operand: the record's values, the actor, the clock,   *)
(* and the values of all records by id.                                    *)
Context(values, actor, self, now, records) ==
  [values |-> values, me |-> actor.id, attrs |-> actor.attrs, self |-> self,
   now |-> now, records |-> records]

(* resolvePath: every segment but the last is the id of a record.  No      *)
(* value: the empty set.                                                   *)
ResolvePath(path, values, records) ==
  LET field(m, i) == IF path[i] \in DOMAIN m THEN {m[path[i]]} ELSE {}
      read[i \in 1..Len(path)] ==
        IF i = 1 THEN field(values, 1)
        ELSE UNION {field(records[v[2]], i) :
                      v \in {v \in read[i - 1] : v[1] = "text" /\ v[2] \in DOMAIN records}}
  IN  read[Len(path)]

Dotted(segments) ==
  LET upTo[i \in 1..Len(segments)] ==
        IF i = 1 THEN segments[1] ELSE upTo[i - 1] \o "." \o segments[i]
  IN  upTo[Len(segments)]

(* A literal that reads as a number is one, quoted or not.                 *)
LitValue(segments, c) ==
  CASE segments = <<"$me">> -> Text(c.me)
    [] segments = <<"$self">> -> Text(c.self)
    [] segments = <<"$now">> -> <<"time", c.now>>
    [] segments = <<"true">> -> Bool(TRUE)
    [] segments = <<"false">> -> Bool(FALSE)
    [] segments = <<"null">> -> Nil
    [] Len(segments) = 2 /\ Head(segments) = "$me" ->
         IF segments[2] \in DOMAIN c.attrs THEN c.attrs[segments[2]] ELSE Nil
    [] OTHER ->
         LET text == Dotted(segments)
         IN  IF ParseFloat(text) # {} THEN Num(CHOOSE n \in ParseFloat(text) : TRUE)
             ELSE Text(text)
=============================================================================
