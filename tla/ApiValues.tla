----------------------------- MODULE ApiValues -----------------------------
(***************************************************************************)
(* What from_dict and to_dict of the Python API models do with the value   *)
(* of one field, and what the schema says of it.  A value that is an       *)
(* instance of a class is converted by the code of that class, which comes *)
(* back here for each of its fields.                                       *)
(***************************************************************************)
EXTENDS TLC, FiniteSets, ApiObjects

\* A type is a class unless it is one of these.
Scalars ==
  {"str", "int", "bool", "time", "word", "json", "any",
   "IoK8sApimachineryPkgApiResourceQuantity", "IoK8sApimachineryPkgUtilIntstrIntOrString"}
IsClass(type) == type \notin Scalars

List(items) == <<"list", NoFields, items>>

\* The values in a value of a field, by the shape of the field, and back.
Parts(shape, v) ==
  CASE shape = "one" -> <<v>> [] shape = "list" -> Items(v) [] shape = "dict" -> Fields(v)
Whole(shape, parts) ==
  CASE shape = "one" -> parts[1] [] shape = "list" -> List(parts) [] shape = "dict" -> Object(parts)
HasShape(shape, v) ==
  CASE shape = "one" -> TRUE [] shape = "list" -> Tag(v) = "list" [] shape = "dict" -> Tag(v) = "object"

Strings == {"str", "empty", "time", "word"}   \* time, word: what it says
Accepts(type) ==
  CASE type = "str" -> Strings
    [] type = "time" -> {"time", "datetime", "int", "float"}
    [] type = "json" -> {"object"}
    [] type = "any" -> Strings \union {"int", "float", "bool", "object", "list"}
    [] OTHER -> {type}

\* The two oneOf classes hold a scalar.
IoK8sApimachineryPkgApiResourceQuantity(v) ==
  CASE Tag(v) \in Strings -> v
    [] Tag(v) \in {"int", "float"} -> [v EXCEPT ![1] = "float"]
    [] OTHER -> Raises

IoK8sApimachineryPkgUtilIntstrIntOrString(v) ==
  IF Tag(v) \in Strings \union {"int"} THEN v ELSE Raises

\* What pydantic makes of a scalar that is not None.
Validate(type, v) ==
  CASE type = "IoK8sApimachineryPkgApiResourceQuantity" ->
         IoK8sApimachineryPkgApiResourceQuantity(v)
    [] type = "IoK8sApimachineryPkgUtilIntstrIntOrString" ->
         IoK8sApimachineryPkgUtilIntstrIntOrString(v)
    [] type = "time" ->
         IF Tag(v) \in Accepts(type) THEN [v EXCEPT ![1] = "datetime"] ELSE Raises
    [] OTHER -> IF Tag(v) \in Accepts(type) THEN v ELSE Raises

-----------------------------------------------------------------------------
(***************************************************************************)
(* from_dict and to_dict, for one field.                                   *)
(***************************************************************************)
NotNone(x) == IF x = Null THEN Raises ELSE x

RECURSIVE FieldFromDict(_, _)

\* A member of a list or dict, or a lone value: None is not accepted here.
FromItem(type, v) ==
  NotNone(IF IsClass(type) THEN FromObject(FieldFromDict, Classes[type], v)
          ELSE Validate(type, v))

UnlessRaises(shape, parts) == IF AnyRaises(parts) THEN Raises ELSE Whole(shape, parts)

FromItems(type, shape, parts) ==
  UnlessRaises(shape, [i \in DOMAIN parts |-> FromItem(type, parts[i])])

\* A list of class instances is built by iterating, over whatever it is.
NothingToIterate(field, v) ==
  /\ Shape(field) = "list" /\ IsClass(Type(field))
  /\ v \in {Object(NoFields), Scalar("empty")}

FromValue(field, v) ==
  CASE HasShape(Shape(field), v) ->
         FromItems(Type(field), Shape(field), Parts(Shape(field), v))
    [] NothingToIterate(field, v) -> List(<<>>)
    [] OTHER -> Raises

FieldFromDict(field, v) ==
  IF v # Null THEN FromValue(field, v)
  ELSE IF Missing(field) \notin {"None", "null"} THEN Scalar(Missing(field))
  ELSE IF Optional(field) THEN Null ELSE Raises

\* What the Kubernetes client puts on the wire for a scalar.
Wire(x) == IF Tag(x) = "datetime" THEN [x EXCEPT ![1] = "time"] ELSE x

RECURSIVE FieldToDict(_, _)

ToItem(type, x) ==
  IF IsClass(type) THEN ToFields(FieldToDict, Classes[type], x) ELSE Wire(x)

ToItems(type, shape, parts) ==
  Whole(shape, [i \in DOMAIN parts |-> ToItem(type, parts[i])])

FieldToDict(field, x) ==
  IF x = Null THEN Null ELSE ToItems(Type(field), Shape(field), Parts(Shape(field), x))

-----------------------------------------------------------------------------
(***************************************************************************)
(* Documents: the least one a class reads, and that one with one field set *)
(* to something else, with all fields set, or with a field not modelled.   *)
(***************************************************************************)
ScalarOf(type) ==
  CASE type = "json" -> Object(NoFields)
    [] type = "any" -> Scalar("bool")
    [] type = "IoK8sApimachineryPkgApiResourceQuantity" -> Scalar("str")
    [] type = "IoK8sApimachineryPkgUtilIntstrIntOrString" -> Scalar("int")
    [] OTHER -> Scalar(type)

SampleOf(shape, v) ==
  CASE shape = "one" -> v
    [] shape = "list" -> List(<<v, v>>)
    [] shape = "dict" -> Object("key" :> v)

RECURSIVE SampleValue(_)

Required(fields) ==
  {f \in DOMAIN fields : ~Optional(fields[f]) /\ Missing(fields[f]) = "None"}

Samples(fields, names) == Object([f \in names |-> SampleValue(fields[f])])

LeastOf(fields) == Samples(fields, Required(fields))
FullOf(fields) == Samples(fields, DOMAIN fields)

SampleValue(field) ==
  SampleOf(Shape(field),
           IF IsClass(Type(field)) THEN LeastOf(Classes[Type(field)]) ELSE ScalarOf(Type(field)))

Variants(field) ==
  {Scalar(tag) : tag \in {"str", "empty", "int", "float", "bool"}}
    \union {Null, SampleValue(field), List(<<>>), Object(NoFields), SampleOf(Shape(field), Null)}

With(doc, f, v) == Object((f :> v) @@ Fields(doc))

DocumentsFrom(fields, least, full) ==
  {least, full, With(full, "unknown", Scalar("str"))}
    \union UNION {{With(least, f, v) : v \in Variants(fields[f])} : f \in DOMAIN fields}

AllDocuments(fields) == DocumentsFrom(fields, LeastOf(fields), FullOf(fields))
LeastAndFull(fields) == {LeastOf(fields), FullOf(fields)}

-----------------------------------------------------------------------------
(***************************************************************************)
(* What the schema says of a value, apart from any code that reads it.     *)
(***************************************************************************)
RECURSIVE ValidValue(_, _)

ValidItem(type, v) ==
  CASE IsClass(type) ->
         Tag(v) = "object" /\ ValidFields(ValidValue, Classes[type], v)
    [] type = "IoK8sApimachineryPkgApiResourceQuantity" ->
         Tag(v) \in {"str", "empty", "word", "time", "int", "float"}
    [] type = "IoK8sApimachineryPkgUtilIntstrIntOrString" ->
         Tag(v) \in {"str", "empty", "word", "time", "int"}
    [] type = "str" -> Tag(v) \in {"str", "empty", "word", "time"}
    [] type = "json" -> Tag(v) = "object"
    [] type = "any" -> v # Null
    [] OTHER -> Tag(v) = type

ValidItems(type, parts) == \A i \in DOMAIN parts : ValidItem(type, parts[i])

ValidValue(field, v) ==
  IF v = Null THEN Optional(field) \/ Missing(field) # "None"
  ELSE /\ HasShape(Shape(field), v)
       /\ ValidItems(Type(field), Parts(Shape(field), v))

\* Two valid documents that say the same of a field.
RECURSIVE SameValue(_, _, _)

SameItem(type, v, w) ==
  IF IsClass(type)
  THEN SameFields(SameValue, Classes[type], v, w)
  ELSE \/ w = v
       \/ /\ type = "IoK8sApimachineryPkgApiResourceQuantity"
          /\ Tag(v) = "int" /\ Tag(w) = "float"

SameItems(type, parts, others) ==
  /\ DOMAIN others = DOMAIN parts
  /\ \A i \in DOMAIN parts : SameItem(type, parts[i], others[i])

SameValue(field, v, w) ==
  IF v = Null THEN w \in {Null, Scalar(Missing(field))}
  ELSE /\ w # Null
       /\ SameItems(Type(field), Parts(Shape(field), v), Parts(Shape(field), w))

RECURSIVE InstanceValue(_, _)

\* The Python values a scalar's annotation admits (StrictStr, StrictInt, datetime...).
Holds(type) ==
  CASE type = "time" -> {"datetime"}
    [] type = "IoK8sApimachineryPkgApiResourceQuantity" -> Strings \union {"float"}
    [] type = "IoK8sApimachineryPkgUtilIntstrIntOrString" -> Strings \union {"int"}
    [] OTHER -> Accepts(type)

InstanceItem(type, x) ==
  IF IsClass(type) THEN Tag(x) = "object" /\ InstanceOf(InstanceValue, Classes[type], x)
  ELSE Tag(x) \in Holds(type)

InstanceItems(type, parts) == \A i \in DOMAIN parts : InstanceItem(type, parts[i])

InstanceValue(field, x) ==
  IF x = Null THEN Optional(field)
  ELSE /\ HasShape(Shape(field), x)
       /\ InstanceItems(Type(field), Parts(Shape(field), x))
=============================================================================
