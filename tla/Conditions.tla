----------------------------- MODULE Conditions -----------------------------
(***************************************************************************)
(* The condition language (internal/engine/expr.go): the parser and the    *)
(* evaluator behind row permissions, query filters, guards and rules.      *)
(*                                                                         *)
(* A condition is a sequence of tokens <<kind, text>>; the text of a word  *)
(* or of a quoted string is its segments between dots.  A step of the      *)
(* parser returns the set of what it found: empty when it fails.  A node   *)
(* is found with the value it has in the context it is read in.            *)
(***************************************************************************)
EXTENDS Values

Word(segments) == <<"word", segments>>
Quoted(segments) == <<"str", segments>>
Number(n) == <<"num", n>>
Mark(s) == <<"punct", s>>

Token ==
  ({"word", "str"} \X (Seq(STRING) \ {<<>>})) \cup ({"num"} \X Int) \cup ({"punct"} \X STRING)

-----------------------------------------------------------------------------
(* resolveOperand: a bare word that is no field stands for itself; no      *)
(* value: the empty set.                                                   *)
Resolve(o, c) ==
  CASE o[1] = "const" -> {o[2]}
    [] o[1] = "lit" -> {LitValue(o[2], c)}
    [] o[1] = "path" /\ Len(o[2]) = 1 ->
         {IF o[2][1] \in DOMAIN c.values THEN c.values[o[2][1]] ELSE Text(o[2][1])}
    [] OTHER -> ResolvePath(o[2], c.values, c.records)

IsNull(o) == o = <<"lit", <<"null">>>>

(* operandPresent: a bare word is a field here. *)
Present(o, c) ==
  IF o[1] = "path" THEN \E v \in ResolvePath(o[2], c.values, c.records) : v # Nil
  ELSE ~IsNull(o)

ValuesEqual(a, b) == IF ToFloat(a) # {} THEN ToFloat(a) = ToFloat(b) ELSE a = b

Ordered(x, op, y) ==
  CASE op = ">" -> x > y [] op = "<" -> x < y [] op = ">=" -> x >= y [] op = "<=" -> x <= y

(* eval: yes, no, or an error, which refuses the whole condition.  A       *)
(* comparison with a missing value is no error; a missing bare path is.    *)
Answers(b) == IF b THEN "yes" ELSE "no"

Compare(left, op, right, c) ==
  IF op \in {"=", "!="} /\ (IsNull(left) \/ IsNull(right))
  THEN Answers(Present(IF IsNull(left) THEN right ELSE left, c) = (op = "!="))
  ELSE Answers(\E l \in Resolve(left, c), r \in Resolve(right, c) :
         CASE op = "=" -> ValuesEqual(l, r)
           [] op = "!=" -> ~ValuesEqual(l, r)
           [] OTHER -> \E x \in ToFloat(l), y \in ToFloat(r) : Ordered(x, op, y))

(* A member of an in-list without a value counts as null. *)
Member(o, c) == IF Resolve(o, c) = {} THEN {Nil} ELSE Resolve(o, c)

(* The value of a comparison. *)
Test(n, c) ==
  CASE n[1] = "truthy" ->
         IF Resolve(n[2], c) = {} THEN "error"
         ELSE Answers(Resolve(n[2], c) = {Bool(TRUE)})
    [] n[1] = "in" ->
         Answers(\E l \in Resolve(n[2], c), i \in DOMAIN n[3] :
                   \E r \in Member(n[3][i], c) : ValuesEqual(l, r))
    [] OTHER -> Compare(n[2], n[3], n[4], c)

Node(tree, value) == [tree |-> tree, value |-> value]

Leaf(tree, c) == Node(tree, Test(tree, c))

Not(n) ==
  Node(<<"not", n.tree>>, IF n.value = "error" THEN "error" ELSE Answers(n.value = "no"))
And(l, r) == Node(<<"and", l.tree, r.tree>>, IF l.value = "yes" THEN r.value ELSE l.value)
Or(l, r) == Node(<<"or", l.tree, r.tree>>, IF l.value = "no" THEN r.value ELSE l.value)

Join(word, l, r) == IF word = "and" THEN And(l, r) ELSE Or(l, r)

(* Nodes joined from the left. *)
Joined(word, nodes) ==
  LET upTo[k \in 1..Len(nodes)] ==
        IF k = 1 THEN nodes[1] ELSE Join(word, upTo[k - 1], nodes[k])
  IN  upTo[Len(nodes)]

Conjunction(nodes) == Joined("and", nodes)
Disjunction(nodes) == Joined("or", nodes)

-----------------------------------------------------------------------------
(* The parser: position i of the tokens t, and a node with the position    *)
(* after it.                                                               *)
WordAt(t, i, w) == i <= Len(t) /\ t[i] = Word(<<w>>)
MarkAt(t, i, s) == i <= Len(t) /\ t[i] = Mark(s)

Found(node, next) == [node |-> node, next |-> next]

(* parseOperand: a word is a path unless it starts with $ or is a constant;*)
(* a quoted string is read like a word.                                    *)
Operand(t, i) ==
  IF i > Len(t) THEN {}
  ELSE CASE t[i][1] = "word" ->
              {IF Head(t[i][2]) \in Reserved \/ t[i][2] \in {<<"true">>, <<"false">>, <<"null">>}
               THEN <<"lit", t[i][2]>> ELSE <<"path", t[i][2]>>}
         [] t[i][1] = "str" -> {<<"lit", t[i][2]>>}
         [] t[i][1] = "num" -> {<<"const", Num(t[i][2])>>}
         [] OTHER -> {}

Compares == {"=", "!=", ">", "<", ">=", "<="}

(* The members of an in-list: a comma after each may be there or not.      *)
Lists(t) ==
  LET list[i \in 1..Len(t) + 2] ==
        IF MarkAt(t, i, "]") THEN {Found(<<>>, i + 1)}
        ELSE UNION {{Found(<<o>> \o r.node, r.next) :
                       r \in list[IF MarkAt(t, i + 1, ",") THEN i + 2 ELSE i + 1]} :
                      o \in Operand(t, i)}
  IN  list

(* The trees of a comparison. *)
Comparison(t, i) ==
  UNION {IF WordAt(t, i + 1, "in")
         THEN IF MarkAt(t, i + 2, "[")
              THEN {Found(<<"in", left, r.node>>, r.next) : r \in Lists(t)[i + 3]}
              ELSE {}
         ELSE IF \E op \in Compares : MarkAt(t, i + 1, op)
         THEN {Found(<<"cmp", left, t[i + 1][2], right>>, i + 3) : right \in Operand(t, i + 2)}
         ELSE {Found(<<"truthy", left>>, i + 1)} : left \in Operand(t, i)}

ParseComparison(t, c, i) == {Found(Leaf(r.node, c), r.next) : r \in Comparison(t, i)}

(* What is read at position i, given what p reads behind it and, of the    *)
(* kinds that bind tighter, at i itself: a unary, the unaries with an      *)
(* "and" between them, the conjunctions with an "or" between them.         *)
ParseUnary(t, c, i, p) ==
  IF WordAt(t, i, "not")
  THEN {Found(Not(r.node), r.next) : r \in p[<<i + 1, "unary">>]}
  ELSE IF MarkAt(t, i, "(")
  THEN {Found(Disjunction(r.node), r.next + 1) :
          r \in {r \in p[<<i + 1, "or">>] : MarkAt(t, r.next, ")")}}
  ELSE ParseComparison(t, c, i)

Chain(t, word, firsts, p, rest) ==
  UNION {IF WordAt(t, r.next, word)
         THEN {Found(<<r.node>> \o s.node, s.next) : s \in p[<<r.next + 1, rest>>]}
         ELSE {Found(<<r.node>>, r.next)} : r \in firsts}

ParseAnd(t, i, p) == Chain(t, "and", p[<<i, "unary">>], p, "and")

Conjunctions(i, p) == {Found(Conjunction(r.node), r.next) : r \in p[<<i, "and">>]}

(* A mutant: the terms of an "and" behind an "or" are terms of the "or". *)
OrTakesTerms(t, i, p) == Chain(t, "or", Conjunctions(i, p), p, "and")

ParseOr(t, i, p) == Chain(t, "or", Conjunctions(i, p), p, "or")

Reads(t, c) ==
  LET p[k \in (1..(Len(t) + 1)) \X {"unary", "and", "or"}] ==
        CASE k[2] = "unary" -> ParseUnary(t, c, k[1], p)
          [] k[2] = "and" -> ParseAnd(t, k[1], p)
          [] OTHER -> ParseOr(t, k[1], p)
  IN  p

(* The whole text: trailing tokens refuse it. *)
Parsed(t, c) ==
  {Disjunction(r.node) : r \in {r \in Reads(t, c)[<<1, "or">>] : r.next = Len(t) + 1}}

(* evalWhere: an empty condition holds, one that does not parse does not.  *)
EvalWhere(t, c) == t = <<>> \/ \E n \in Parsed(t, c) : n.value = "yes"
=============================================================================
