----------------------------- MODULE ApiObjects -----------------------------
(***************************************************************************)
(* from_dict and to_dict of the Python API models, which are the same code *)
(* in every class up to its fields.  What they do with the value of one    *)
(* field is an argument here: ApiValues has the code.                      *)
(***************************************************************************)
EXTENDS Sequences, ApiField

CONSTANT Classes   \* the fields of each class (of ApiMeta, ApiCore, ApiWorkloads, ApiTrainer)

(***************************************************************************)
(* Values of documents and of model instances: a tag, the fields of an     *)
(* object, the items of a list (or what tells two scalars apart).          *)
(***************************************************************************)
NoFields == [f \in {} |-> ""]
Scalar(tag) == <<tag, NoFields, <<>>>>
Object(fields) == <<"object", fields, <<>>>>
Null == Scalar("null")
Raises == Scalar("raises")

Tag(v) == v[1]
Fields(v) == v[2]
Items(v) == v[3]

Get(v, f) == IF f \in DOMAIN Fields(v) THEN Fields(v)[f] ELSE Null

AnyRaises(parts) == \E i \in DOMAIN parts : parts[i] = Raises

-----------------------------------------------------------------------------
FromFields(From(_, _), fields, v) ==
  LET parts == [f \in DOMAIN fields |-> From(fields[f], Get(v, f))]
  IN IF AnyRaises(parts) THEN Raises ELSE Object(parts)

FromObject(From(_, _), fields, v) ==
  CASE v = Null -> Null
    [] Tag(v) = "object" -> FromFields(From, fields, v)
    [] OTHER -> Raises

WrittenNoReadOnly(fields, x) ==
  {f \in DOMAIN fields \ {"resourceVersion"} : Fields(x)[f] # Null \/ Missing(fields[f]) = "null"}

\* None is left out, save where the field is nullable.
Written(fields, x) ==
  {f \in DOMAIN fields : Fields(x)[f] # Null \/ Missing(fields[f]) = "null"}

ToFields(To(_, _), fields, x) ==
  Object([f \in Written(fields, x) |-> To(fields[f], Fields(x)[f])])

-----------------------------------------------------------------------------
(***************************************************************************)
(* What the schema says of an object, given what it says of a field.       *)
(***************************************************************************)
ValidFields(Allowed(_, _), fields, v) == \A f \in DOMAIN fields : Allowed(fields[f], Get(v, f))

SameFields(Same(_, _, _), fields, v, w) ==
  \A f \in DOMAIN fields : Same(fields[f], Get(v, f), Get(w, f))

InstanceOf(Typed(_, _), fields, x) ==
  /\ DOMAIN Fields(x) = DOMAIN fields
  /\ \A f \in DOMAIN fields : Typed(fields[f], Fields(x)[f])
=============================================================================
