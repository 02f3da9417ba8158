------------------------------ MODULE Grammar -------------------------------
(***************************************************************************)
(* The grammar of conditions, as the comment on the language gives it      *)
(* (expr.go:17-26), by spans: the trees of each kind that the tokens from  *)
(* i to j have.  Two liberties of the parser are part of it: a list may be *)
(* empty and its commas are optional, and a keyword may be an operand,     *)
(* "not" as the first one excepted.                                        *)
(***************************************************************************)
EXTENDS Conditions

(* The members of an in-list. *)
Members(t, i, j, g) ==
  IF i > j THEN {<<>>}
  ELSE {Append(m, o) : m \in g[<<i, j - 1, "list">>], o \in Operand(t, j)}
         \cup IF j > i /\ MarkAt(t, j, ",")
              THEN {Append(m, o) : m \in g[<<i, j - 2, "list">>], o \in Operand(t, j - 1)}
              ELSE {}

Comparisons(t, i, j, g) ==
  IF i > j \/ WordAt(t, i, "not") THEN {}
  ELSE {<<"truthy", o>> : o \in IF i = j THEN Operand(t, i) ELSE {}}
    \cup (IF j = i + 2
          THEN {<<"cmp", l, op, r>> :
                  l \in Operand(t, i), op \in {op \in Compares : MarkAt(t, i + 1, op)},
                  r \in Operand(t, j)}
          ELSE {})
    \cup (IF j >= i + 3 /\ WordAt(t, i + 1, "in") /\ MarkAt(t, i + 2, "[") /\ MarkAt(t, j, "]")
          THEN {<<"in", l, m>> : l \in Operand(t, i), m \in g[<<i + 3, j - 1, "list">>]}
          ELSE {})

Unaries(t, i, j, g) ==
  Comparisons(t, i, j, g)
    \cup (IF i < j /\ WordAt(t, i, "not")
          THEN {<<"not", n>> : n \in g[<<i + 1, j, "unary">>]} ELSE {})
    \cup (IF i + 1 < j /\ MarkAt(t, i, "(") /\ MarkAt(t, j, ")")
          THEN g[<<i + 1, j - 1, "or">>] ELSE {})

(* Trees of a tighter kind with a word between them, from the left. *)
Tighter(word) == IF word = "and" THEN "unary" ELSE "and"

Chains(t, word, i, j, g) ==
  g[<<i, j, Tighter(word)>>]
    \cup UNION {{<<word, l, r>> : l \in g[<<i, k - 1, word>>], r \in g[<<k + 1, j, Tighter(word)>>]} :
                  k \in {k \in (i + 1)..(j - 1) : WordAt(t, k, word)}}

Derived(t, i, j, kind, g) ==
  CASE kind = "list" -> Members(t, i, j, g)
    [] kind = "unary" -> Unaries(t, i, j, g)
    [] OTHER -> Chains(t, kind, i, j, g)

Language(t) ==
  LET g[k \in (1..(Len(t) + 1)) \X (0..Len(t)) \X {"list", "unary", "and", "or"}] ==
        Derived(t, k[1], k[2], k[3], g)
  IN  g

Trees(t) == Language(t)[<<1, Len(t), "or">>]

(* The trees the parser makes of a text. *)
ParsedTrees(t, c) == {n.tree : n \in Parsed(t, c)}

(* Any context: trees are the same in all. *)
Nowhere == Context(<<>>, [id |-> "", attrs |-> <<>>], "", 0, <<>>)
=============================================================================
