----------------------------- MODULE ApiModels -----------------------------
(***************************************************************************)
(* The Python API models (api/python_api/kubeflow_trainer_api/models) in   *)
(* the hands of a client that reads an object, sets fields of it and       *)
(* writes it back, while others write the object too.                      *)
(*                                                                         *)
(* What the classes do with one field is a parameter, of which the         *)
(* assumptions say what the rest depends on.  ApiValues has the code.      *)
(***************************************************************************)
EXTENDS Naturals, FiniteSets, ApiObjects

CONSTANTS
  Kinds,        \* the classes taken for the part of the object that is followed
  Edited,       \* those of them whose fields the client sets
  MaxVersion,   \* bound on the writes of the object
  MaxAssigned,  \* bound on the fields the client sets
  Values(_),    \* the values a field has in the documents of others
  Sample(_),    \* one of them, which the client sets
  Documents(_),         \* the documents of a class, given its fields
  Rewrites(_),          \* those of them that others write later
  FromField(_, _),      \* what from_dict makes of the value of a field
  ToField(_, _),        \* what to_dict makes of it, on the wire
  ValidField(_, _),     \* the schema allows the value in the field
  SameField(_, _, _),   \* two values say the same of the field
  InstanceField(_, _)   \* an instance may have the value in the field

VARIABLES
  kind,       \* the class of that part
  stored,     \* the object in the API server: its metadata and that part
  held,       \* the client's model instances of both, when it holds them
  assigned,   \* the fields the client has set since it read the object
  raised      \* the client's last call raised an exception

vars == <<kind, stored, held, assigned, raised>>

-----------------------------------------------------------------------------
(***************************************************************************)
(* What a field promises of a value v that others write: what is read has  *)
(* the type of the field, what the schema allows is read, and what is      *)
(* written of what was read is allowed, says what v said and is read as    *)
(* the same.                                                               *)
(***************************************************************************)
Converts(field, v, x) ==
  /\ ValidField(field, v) => x # Raises
  /\ x # Raises =>
       /\ InstanceField(field, x)
       /\ ValidField(field, ToField(field, x))
       /\ FromField(field, ToField(field, x)) = x
       /\ SameField(field, ToField(field, x), ToField(field, x))
       /\ ValidField(field, v) => SameField(field, v, ToField(field, x))

\* None, where the field is Optional, is such a value, save for the default.
AcceptsNone(field) ==
  /\ InstanceField(field, Null)
  /\ ValidField(field, Null)
  /\ FromField(field, Null) \in {Null, Scalar(Missing(field))}

ASSUME FieldsAssumption ==
  \A class \in Kinds : \A f \in DOMAIN Classes[class] :
    LET field == Classes[class][f]
    IN /\ {Null, Sample(field)} \subseteq Values(field)
       /\ ToField(field, Null) = Null
       /\ Optional(field) => AcceptsNone(field)
       /\ \A v \in Values(field) : Converts(field, v, FromField(field, v))

ASSUME DocumentsAssumption ==
  \A class \in Kinds : \A doc \in Documents(Classes[class]) \union Rewrites(Classes[class]) :
    /\ Tag(doc) = "object"
    /\ \A f \in DOMAIN Classes[class] : Get(doc, f) \in Values(Classes[class][f])

-----------------------------------------------------------------------------
FromDictStrict(class, v) ==
  IF DOMAIN Fields(v) \subseteq DOMAIN Classes[class]
  THEN FromObject(FromField, Classes[class], v) ELSE Raises

FromDict(class, v) == FromObject(FromField, Classes[class], v)

ToDictNotEmpty(class, x) ==
  LET doc == ToFields(ToField, Classes[class], x)
  IN Object([f \in {g \in DOMAIN Fields(doc) : Fields(doc)[g] # <<"list", NoFields, <<>>>>}
               |-> Fields(doc)[f]])

ToDict(class, x) == ToFields(ToField, Classes[class], x)

(***************************************************************************)
(* The client, and the others that write the object.                       *)
(***************************************************************************)
ObjectMeta == "IoK8sApimachineryPkgApisMetaV1ObjectMeta"

ResourceVersion(version) == <<"str", NoFields, <<version>>>>

Metadata(version) ==
  Object([f \in {"name", "creationTimestamp", "resourceVersion"} |->
            CASE f = "name" -> Scalar("str")
              [] f = "creationTimestamp" -> Scalar("time")
              [] f = "resourceVersion" -> ResourceVersion(version)])

Version(object) == Items(Get(object.metadata, "resourceVersion"))[1]

ASSUME BoundsAssumption == MaxVersion \in Nat \ {0} /\ MaxAssigned \in Nat

\* The metadata is read as what it is, and to_dict writes the version it read.
ASSUME MetadataAssumption ==
  \A version \in 1..MaxVersion :
    LET fields == Classes[ObjectMeta]
        Of(f) == FromField(fields[f], Get(Metadata(version), f))
    IN /\ \A f \in DOMAIN fields : Of(f) # Raises => InstanceField(fields[f], Of(f))
       /\ "resourceVersion" \in DOMAIN fields
       /\ Of("resourceVersion") # Null
       /\ ToField(fields["resourceVersion"], Of("resourceVersion")) = ResourceVersion(version)

Nothing == [metadata |-> Null, part |-> Null]

Init ==
  /\ kind \in Kinds
  /\ \E doc \in Documents(Classes[kind]) : stored = [metadata |-> Metadata(1), part |-> doc]
  /\ held = Nothing
  /\ assigned = {}
  /\ raised = FALSE

Hold(metadata, part) ==
  /\ raised' = (Raises \in {metadata, part})
  /\ held' = IF raised' THEN Nothing ELSE [metadata |-> metadata, part |-> part]

\* The classes read the object the client got.
Read ==
  /\ Hold(FromDict(ObjectMeta, stored.metadata), FromDict(kind, stored.part))
  /\ assigned' = {}
  /\ UNCHANGED <<kind, stored>>

AssignUnvalidated(field, v) == v

\* validate_assignment: None only where the annotation is Optional.
AssignField(field, v) == IF v = Null /\ ~Optional(field) THEN Raises ELSE v

\* The client sets a field to None or to a value of its type.
Assign(f, field, v) ==
  LET x == AssignField(field, v)
  IN /\ kind \in Edited
     /\ held # Nothing
     /\ Cardinality(assigned) < MaxAssigned
     /\ raised' = (x = Raises)
     /\ IF raised' THEN UNCHANGED <<held, assigned>>
        ELSE /\ held' = [held EXCEPT !.part = Object([Fields(@) EXCEPT ![f] = x])]
             /\ assigned' = assigned \union {f}
     /\ UNCHANGED <<kind, stored>>

AssignSome(fields) ==
  \E f \in DOMAIN fields :
    \E v \in {Null, FromField(fields[f], Sample(fields[f]))} : Assign(f, fields[f], v)

\* The server takes a replacement that names no version, or the current one.
Current(metadata) ==
  Get(metadata, "resourceVersion") \in {Null, Get(stored.metadata, "resourceVersion")}

Replace(metadata, part) ==
  /\ raised' = ~Current(metadata)
  /\ IF raised' THEN UNCHANGED stored
     ELSE stored' = [metadata |-> Metadata(Version(stored) + 1), part |-> part]

\* The client replaces the object by what to_dict makes of its instances.
Write ==
  /\ held # Nothing
  /\ Version(stored) < MaxVersion
  /\ Replace(ToDict(ObjectMeta, held.metadata), ToDict(kind, held.part))
  /\ held' = Nothing
  /\ assigned' = {}
  /\ UNCHANGED kind

\* Someone else writes the object.
OthersWrite(doc) ==
  /\ Version(stored) < MaxVersion
  /\ stored' = [metadata |-> Metadata(Version(stored) + 1), part |-> doc]
  /\ UNCHANGED <<kind, held, assigned, raised>>

OthersWriteSome(fields) == \E doc \in Rewrites(fields) : OthersWrite(doc)

Next ==
  \/ Read
  \/ AssignSome(Classes[kind])
  \/ Write
  \/ OthersWriteSome(Classes[kind])

Spec == Init /\ [][Next]_vars

-----------------------------------------------------------------------------
Valid(class, v) == Tag(v) = "object" /\ ValidFields(ValidField, Classes[class], v)

Instance(class, x) == InstanceOf(InstanceField, Classes[class], x)

(***************************************************************************)
(* Type correctness.  What the client holds is an instance of its class:   *)
(* every field has the shape and a value of its type (StrictStr, datetime, *)
(* List[...] of a class), None only where it is Optional, after reading    *)
(* whatever document, also an invalid one from_dict lets pass, and after   *)
(* any assignments.                                                        *)
(***************************************************************************)
TypeOK ==
  /\ kind \in Kinds
  /\ assigned \subseteq DOMAIN Classes[kind]
  /\ raised \in BOOLEAN
  /\ held # Nothing => Instance(ObjectMeta, held.metadata) /\ Instance(kind, held.part)

(***************************************************************************)
(* from_dict never raises on a document the schema allows: one that leaves *)
(* out what has a default, has null for what is optional, writes a         *)
(* quantity as a number or has fields the class does not know.             *)
(***************************************************************************)
ReadsValid == Valid(kind, stored.part) => FromDict(kind, stored.part) # Raises

\* The document doc, read, is the instance x save for defaults.
RereadsAs(fields, x, doc) ==
  /\ ValidFields(ValidField, fields, doc)
  /\ LET again == FromObject(FromField, fields, doc)
     IN \A f \in DOMAIN fields :
          \/ Get(again, f) = Get(x, f)
          \/ Get(x, f) = Null /\ Get(again, f) = Scalar(Missing(fields[f]))

(***************************************************************************)
(* Whatever the client holds after any reads and assignments, what to_dict *)
(* writes of it is a document the schema allows and from_dict reads as the *)
(* same instance, with the default where the client had set None.          *)
(***************************************************************************)
Rereads ==
  held # Nothing => RereadsAs(Classes[kind], held.part, ToDict(kind, held.part))

(***************************************************************************)
(* Read, change and write back: a write by the client that the server      *)
(* accepts changes nothing the client did not set.  Every other field says *)
(* what it said in the object just before the write, which others may have *)
(* written since the client read it.  Only unknown fields are dropped.     *)
(***************************************************************************)
WriteKeepsRest ==
  [][(stored' # stored /\ held' # held /\ Valid(kind, stored.part)) =>
       \A f \in DOMAIN Classes[kind] \ assigned :
         SameField(Classes[kind][f], Get(stored.part, f), Get(stored'.part, f))]_vars
=============================================================================
