------------------------------ MODULE ApiField ------------------------------
(***************************************************************************)
(* How the generated Python models describe one field of a class: whether  *)
(* it holds one value, a list or a dict; the type of a value, a scalar or  *)
(* the name of a class; whether it may be None; and what from_dict reads   *)
(* where the document has nothing.                                         *)
(***************************************************************************)
Shape(field) == field[1]
Type(field) == field[2]
Optional(field) == field[3] = "Optional"
Missing(field) == field[4]

One(type) == <<"one", type, "Optional", "None">>
Many(type) == <<"list", type, "Optional", "None">>     \* List[...]
Map(type) == <<"dict", type, "Optional", "None">>      \* Dict[str, ...]

Text == <<"one", "str", "Optional", "None">>           \* StrictStr
Number == <<"one", "int", "Optional", "None">>         \* StrictInt
Flag == <<"one", "bool", "Optional", "None">>          \* StrictBool
Time == <<"one", "time", "Optional", "None">>          \* datetime
Word == <<"one", "word", "Optional", "None">>          \* StrictStr with an enum validator
Json == <<"one", "json", "Optional", "None">>          \* Dict[str, Any]

\* Not Optional.
Need(field) == [field EXCEPT ![3] = "Required"]

\* from_dict has a default for it.
Else(field, value) == [field EXCEPT ![4] = value]
Blank == <<"one", "str", "Required", "empty">>
Zero == <<"one", "int", "Required", "int">>
Off == <<"one", "bool", "Required", "bool">>

\* Optional[Any], which to_dict writes although it is None.
Nullable == <<"one", "any", "Optional", "null">>
=============================================================================
