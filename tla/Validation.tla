----------------------------- MODULE Validation -----------------------------
(***************************************************************************)
(* What a record may be (internal/engine: validate.go, serial.go): types,  *)
(* defaults, required fields, document numbers, references and unique      *)
(* values, as operators over a declaration and the records there are.      *)
(* Records are a function of their ids to entity and values; Nil is a      *)
(* field set to null, which a field that is not there is compared like.    *)
(* Which strings a format accepts is a constant.                           *)
(***************************************************************************)
EXTENDS Values

CONSTANTS
  WellFormed,          \* per string format: the strings its check accepts
  Format(_, _, _),     \* a serial's text: its format, a year, a number
  Years, MaxSerial     \* bound: the numbers a serial's text is read for

Of(e, records) == {id \in DOMAIN records : records[id].entity = e}

ValueAt(values, f) == IF f \in DOMAIN values THEN values[f] ELSE Nil

Fields(decl) == {decl.fields[i] : i \in DOMAIN decl.fields}

(* Present and not empty: what `required` asks for. *)
Filled(v) == v \notin {Nil, Text("")}

-----------------------------------------------------------------------------
(* Types. *)
Formats == {"date", "datetime", "email", "url", "phone", "color", "duration"}

CheckScalar(scalar, v) ==
  CASE scalar \in {"string", "text", "serial"} -> v[1] = "text"
    [] scalar \in Formats -> v[1] = "text" /\ v[2] \in WellFormed[scalar]
    [] scalar \in {"bool", "file"} -> v[1] = scalar
    [] scalar \in {"int", "float"} -> v[1] = "num"
    [] scalar \in {"money", "decimal"} -> ToFloat(v) # {}
    [] scalar = "percent" -> \E n \in ToFloat(v) : n \in 0..100
    [] OTHER -> TRUE

AllOf(v, P(_)) == v[1] = "list" /\ \A x \in v[2] : P(x)

CheckType(type, v) ==
  CASE type.kind = "scalar" -> CheckScalar(type.scalar, v)
    [] type.kind = "enum" -> v[1] = "text" /\ v[2] \in type.values
    [] type.kind = "ref" -> v[1] = "text"
    [] type.kind \in {"arrayref", "tags"} -> AllOf(v, LAMBDA x : x[1] = "text")
    [] type.kind = "multienum" -> AllOf(v, LAMBDA x : x[1] = "text" /\ x[2] \in type.values)
    [] OTHER -> AllOf(v, LAMBDA x : x[1] = "file")

(* validateValues: nothing undeclared, nothing computed, types, and, where *)
(* the values are a whole record, what is required.                        *)
TypesHold(decl, values) ==
  \A f \in DOMAIN values :
    \E d \in Fields(decl) :
      /\ d.name = f /\ ~d.computed
      /\ values[f] = Nil \/ CheckType(d.type, values[f])

RequiredHolds(decl, values) ==
  \A d \in Fields(decl) : d.required => Filled(ValueAt(values, d.name))

(* The default of a field that is not there, if there is one: a path of    *)
(* several segments reads what the record already refers to; a literal is  *)
(* read without the actor's attributes.                                    *)
DefaultOf(d, known, actorID, now, records) ==
  LET byId == [id \in DOMAIN records |-> records[id].values]
  IN  IF d.name \in DOMAIN known \/ d.default = <<>> \/ d.computed THEN {}
      ELSE IF Len(d.default) > 1 /\ Head(d.default) \notin Reserved
      THEN ResolvePath(d.default, known, byId)
      ELSE {LitValue(d.default,
              Context(known, [id |-> actorID, attrs |-> <<>>], "", now, byId))}

WithDefault(d, known, actorID, now, records) ==
  LET found == DefaultOf(d, known, actorID, now, records)
  IN  IF found = {} THEN known ELSE Over(Entry(d.name, CHOOSE v \in found : TRUE), known)

(* Defaults enter in the order of the fields, unchecked. *)
Defaulted(decl, values, actorID, now, records) ==
  LET filled[i \in 0..Len(decl.fields)] ==
        IF i = 0 THEN values
        ELSE WithDefault(decl.fields[i], filled[i - 1], actorID, now, records)
  IN  filled[Len(decl.fields)]

-----------------------------------------------------------------------------
(* Document numbers: the next one is behind the highest that can be read   *)
(* from the records there are, of whatever year.                           *)
ParseSeq(v, format) ==
  {n \in 1..MaxSerial : \E y \in Years : v = Text(Format(format, y, n))}

NextSerial(e, d, records) ==
  LET taken == UNION {ParseSeq(ValueAt(records[id].values, d.name), d.format) : id \in Of(e, records)}
  IN  1 + CHOOSE n \in {0} \cup taken : \A k \in taken : k <= n

IsSerial(d) == d.type.kind = "scalar" /\ d.type.scalar = "serial"

(* assignSerials: to the serial fields that are not filled. *)
AssignSerials(e, decl, values, year, records) ==
  LET unset == {d \in Fields(decl) : IsSerial(d) /\ ~Filled(ValueAt(values, d.name))}
      number(f) == CHOOSE n \in {NextSerial(e, d, records) : d \in {d \in unset : d.name = f}} : TRUE
      format(f) == (CHOOSE d \in unset : d.name = f).format
  IN  Over([f \in {d.name : d \in unset} |-> Text(Format(format(f), year, number(f)))], values)

-----------------------------------------------------------------------------
(* checkRefsExist: references out of the core pack are opaque, and so are  *)
(* the members of a list.                                                  *)
RefsExist(decl, values, records, core) ==
  \A d \in Fields(decl) :
    d.type.kind = "ref" /\ d.type.target \notin core /\ ValueAt(values, d.name) # Nil =>
      values[d.name][2] \in Of(d.type.target, records)

(* checkUnique: against every other record there is, one field at a time   *)
(* unless it is null, and each unique(...) as a combination, nulls too.    *)
Same(fields, a, b) == \A f \in fields : ValueAt(a, f) = ValueAt(b, f)

UniqueWithin(e, decl, values, self, records) ==
  \A id \in Of(e, records) \ {self} :
    /\ \A d \in Fields(decl) :
         d.unique /\ ValueAt(values, d.name) # Nil =>
           ~Same({d.name}, values, records[id].values)
    /\ \A fields \in decl.constraints : ~Same(fields, values, records[id].values)
=============================================================================
