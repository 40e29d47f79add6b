-------------------------- MODULE ApiModelsProofs --------------------------
(***************************************************************************)
(* Proofs about the Python API models in the hands of a client: for any    *)
(* classes whose fields keep the promise of FieldsAssumption, any          *)
(* documents made of the values of their fields, and any number of writes  *)
(* and assignments.                                                        *)
(***************************************************************************)
EXTENDS ApiModels, TLAPS

-----------------------------------------------------------------------------
(***************************************************************************)
(* The inductive invariant.  A field of an instance is read from a value   *)
(* others wrote, or is None; a field of a document is such a value or was  *)
(* written of such an instance.                                            *)
(***************************************************************************)
IsRead(field, x) == x # Raises /\ \E v \in Values(field) : x = FromField(field, v)

IsHeld(field, x) == IsRead(field, x) \/ (x = Null /\ Optional(field))

IsStored(field, v) ==
  \/ v \in Values(field)
  \/ \E u \in Values(field) :
       FromField(field, u) # Raises /\ v = ToField(field, FromField(field, u))

StoredInv ==
  /\ Version(stored) \in 1..MaxVersion
  /\ stored = [metadata |-> Metadata(Version(stored)), part |-> stored.part]
  /\ Tag(stored.part) = "object"
  /\ \A f \in DOMAIN Classes[kind] : IsStored(Classes[kind][f], Get(stored.part, f))

\* What the client did not set is what the object of the version it read says.
HeldOf(version) ==
  LET parts == Fields(held.part)
  IN /\ held = [metadata |-> FromDict(ObjectMeta, Metadata(version)), part |-> Object(parts)]
     /\ held.metadata # Raises
     /\ parts = [f \in DOMAIN Classes[kind] |-> parts[f]]
     /\ \A f \in DOMAIN Classes[kind] : IsHeld(Classes[kind][f], parts[f])
     /\ version = Version(stored) =>
          \A f \in DOMAIN Classes[kind] \ assigned :
            parts[f] = FromField(Classes[kind][f], Get(stored.part, f))

ClientInv ==
  /\ kind \in Kinds
  /\ assigned \subseteq DOMAIN Classes[kind]
  /\ raised \in BOOLEAN
  /\ StoredInv
  /\ held # Nothing => \E version \in 1..Version(stored) : HeldOf(version)

-----------------------------------------------------------------------------
\* What a field makes of a value that a document may have: from_dict of one field.
LEMMA StoredField ==
  ASSUME NEW class \in Kinds, NEW f \in DOMAIN Classes[class], NEW v,
         IsStored(Classes[class][f], v)
  PROVE  LET field == Classes[class][f]
             x == FromField(field, v)
         IN /\ ValidField(field, v) => x # Raises
            /\ x # Raises => IsRead(field, x)
            /\ ValidField(field, v) => SameField(field, v, ToField(field, x))
<1> DEFINE field == Classes[class][f]
<1>1. ASSUME NEW u \in Values(field) PROVE Converts(field, u, FromField(field, u))
  BY FieldsAssumption
<1>2. CASE v \in Values(field)
  BY <1>1, <1>2 DEF Converts, IsRead
<1>3. ASSUME NEW u \in Values(field), FromField(field, u) # Raises,
             v = ToField(field, FromField(field, u))
      PROVE  /\ FromField(field, v) = FromField(field, u)
             /\ SameField(field, v, v)
  BY <1>1, <1>3 DEF Converts
<1>4. QED BY <1>2, <1>3 DEF IsStored, IsRead

\* What a field makes of a value that an instance may have: to_dict of one field.
LEMMA HeldField ==
  ASSUME NEW class \in Kinds, NEW f \in DOMAIN Classes[class], NEW x,
         IsHeld(Classes[class][f], x)
  PROVE  LET field == Classes[class][f]
             v == ToField(field, x)
         IN /\ InstanceField(field, x)
            /\ ValidField(field, v)
            /\ IsStored(field, v)
            /\ \/ FromField(field, v) = x
               \/ x = Null /\ FromField(field, v) = Scalar(Missing(field))
<1> DEFINE field == Classes[class][f]
<1>1. ASSUME NEW u \in Values(field) PROVE Converts(field, u, FromField(field, u))
  BY FieldsAssumption
<1>2. CASE IsRead(field, x)
  BY <1>1, <1>2 DEF Converts, IsRead, IsStored
<1>3. CASE x = Null /\ Optional(field)
  <2>1. Null \in Values(field) /\ ToField(field, Null) = Null /\ AcceptsNone(field)
    BY <1>3, FieldsAssumption
  <2>2. QED BY <1>3, <2>1 DEF AcceptsNone, IsStored
<1>4. QED BY <1>2, <1>3 DEF IsHeld

-----------------------------------------------------------------------------
\* from_dict of a document, field by field.
LEMMA FromDictParts ==
  ASSUME NEW class, NEW v, Tag(v) = "object"
  PROVE  LET parts == [f \in DOMAIN Classes[class] |-> FromField(Classes[class][f], Get(v, f))]
         IN IF AnyRaises(parts) THEN FromDict(class, v) = Raises
            ELSE FromDict(class, v) = Object(parts) /\ FromDict(class, v) # Raises
<1>1. v # Null
  BY DEF Null, Scalar, Tag
<1>2. ASSUME NEW parts PROVE Object(parts) # Raises
  BY DEF Object, Raises, Scalar
<1>3. FromDict(class, v) = FromFields(FromField, Classes[class], v)
  BY <1>1 DEF FromDict, FromObject
<1>4. QED BY <1>2, <1>3 DEF FromFields

\* to_dict of an instance, field by field: what it leaves out is None.
LEMMA ToDictParts ==
  ASSUME NEW class, NEW x, NEW f \in DOMAIN Classes[class],
         ToField(Classes[class][f], Null) = Null \/ Fields(x)[f] # Null
  PROVE  /\ Tag(ToDict(class, x)) = "object"
         /\ Get(ToDict(class, x), f) = ToField(Classes[class][f], Fields(x)[f])
<1> DEFINE fields == Classes[class]
           parts == [g \in Written(fields, x) |-> ToField(fields[g], Fields(x)[g])]
<1>1. ToDict(class, x) = Object(parts)
  BY DEF ToDict, ToFields
<1>2. Tag(Object(parts)) = "object" /\ Fields(Object(parts)) = parts
  BY DEF Object, Tag, Fields
<1>3. CASE f \in Written(fields, x)
  BY <1>1, <1>2, <1>3 DEF Get
<1>4. CASE f \notin Written(fields, x)
  <2>1. Fields(x)[f] = Null
    BY <1>4 DEF Written
  <2>2. QED BY <1>1, <1>2, <1>4, <2>1 DEF Get
<1>5. QED BY <1>3, <1>4

\* The version of an object is the one its metadata names.
LEMMA MetadataVersion ==
  ASSUME NEW version, NEW part
  PROVE  /\ Tag(Metadata(version)) = "object"
         /\ Get(Metadata(version), "resourceVersion") = ResourceVersion(version)
         /\ Version([metadata |-> Metadata(version), part |-> part]) = version
<1>1. /\ Tag(Metadata(version)) = "object"
      /\ Get(Metadata(version), "resourceVersion") = ResourceVersion(version)
  BY DEF Metadata, Object, Tag, Get, Fields
<1>2. Items(ResourceVersion(version))[1] = version
  BY DEF Items, ResourceVersion
<1>3. QED BY <1>1, <1>2 DEF Version

\* The version of the metadata that to_dict writes is the one from_dict read.
LEMMA MetadataWritten ==
  ASSUME NEW version \in 1..MaxVersion, FromDict(ObjectMeta, Metadata(version)) # Raises
  PROVE  LET x == FromDict(ObjectMeta, Metadata(version))
         IN /\ x # Null
            /\ Instance(ObjectMeta, x)
            /\ Get(ToDict(ObjectMeta, x), "resourceVersion") = ResourceVersion(version)
<1> DEFINE fields == Classes[ObjectMeta]
           Of(f) == FromField(fields[f], Get(Metadata(version), f))
           parts == [f \in DOMAIN fields |-> Of(f)]
           x == FromDict(ObjectMeta, Metadata(version))
<1>1. x = Object(parts) /\ ~AnyRaises(parts)
  BY Zenon, MetadataVersion, FromDictParts
<1>2. Fields(x) = parts /\ x # Null
  BY <1>1 DEF Object, Fields, Null, Scalar
<1>3. /\ \A f \in DOMAIN fields : Of(f) # Raises => InstanceField(fields[f], Of(f))
      /\ "resourceVersion" \in DOMAIN fields
      /\ Of("resourceVersion") # Null
      /\ ToField(fields["resourceVersion"], Of("resourceVersion")) = ResourceVersion(version)
  BY MetadataAssumption
<1>4. Instance(ObjectMeta, x)
  BY <1>1, <1>2, <1>3 DEF AnyRaises, Instance, InstanceOf
<1>5. Get(ToDict(ObjectMeta, x), "resourceVersion") = ResourceVersion(version)
  <2>1. Fields(x)["resourceVersion"] = Of("resourceVersion")
    BY <1>2, <1>3
  <2>2. QED BY <1>3, <2>1, ToDictParts
<1>6. QED BY <1>2, <1>4, <1>5

-----------------------------------------------------------------------------
LEMMA InitClient == Init => ClientInv
<1> SUFFICES ASSUME Init PROVE ClientInv
  OBVIOUS
<1>1. PICK doc \in Documents(Classes[kind]) : stored = [metadata |-> Metadata(1), part |-> doc]
  BY DEF Init
<1>2. /\ kind \in Kinds
      /\ held = Nothing
      /\ assigned = {}
      /\ raised = FALSE
  BY DEF Init
<1>3. Version(stored) = 1 /\ stored.part = doc /\ 1 \in 1..MaxVersion
  BY <1>1, MetadataVersion, BoundsAssumption
<1>4. Tag(doc) = "object" /\ \A f \in DOMAIN Classes[kind] : Get(doc, f) \in Values(Classes[kind][f])
  BY <1>2, DocumentsAssumption
<1>5. StoredInv
  BY <1>1, <1>3, <1>4 DEF StoredInv, IsStored
<1>6. QED BY Zenon, <1>2, <1>5 DEF ClientInv

\* Read: what the classes make of the current version.
LEMMA ReadStep == ClientInv /\ Read => ClientInv'
<1> SUFFICES ASSUME ClientInv, Read PROVE ClientInv'
  OBVIOUS
<1> DEFINE fields == Classes[kind]
           version == Version(stored)
           metadata == FromDict(ObjectMeta, Metadata(version))
           part == FromDict(kind, stored.part)
           parts == [f \in DOMAIN fields |-> FromField(fields[f], Get(stored.part, f))]
<1>1. kind' = kind /\ stored' = stored /\ assigned' = {}
  BY DEF Read
<1>2. /\ raised' = (Raises \in {metadata, part})
      /\ held' = IF raised' THEN Nothing ELSE [metadata |-> metadata, part |-> part]
  BY DEF Read, Hold, ClientInv, StoredInv
<1>3. kind \in Kinds /\ StoredInv
  BY DEF ClientInv
<1>4. StoredInv'
  BY <1>1, <1>3 DEF StoredInv, IsStored, Version, Get
<1>5. raised' \in BOOLEAN
  BY <1>2
<1>6. ASSUME held' # Nothing PROVE HeldOf(version)'
  <2>1. /\ held' = [metadata |-> metadata, part |-> part]
        /\ metadata # Raises /\ part # Raises
    BY Zenon, <1>2, <1>6
  <2>2. part = Object(parts) /\ ~AnyRaises(parts)
    BY <1>3, <2>1, FromDictParts DEF StoredInv
  <2>3. Fields(part) = parts
    BY <2>2 DEF Object, Fields
  <2>4. ASSUME NEW f \in DOMAIN fields PROVE IsHeld(fields[f], parts[f])
    <3>1. parts[f] # Raises
      BY <2>2 DEF AnyRaises
    <3>2. QED BY <1>3, <3>1, StoredField DEF StoredInv, IsHeld
  <2>5. /\ Fields(held'.part) = parts
        /\ held' = [metadata |-> metadata, part |-> Object(parts)]
        /\ held'.metadata # Raises
    BY <2>1, <2>2, <2>3
  <2> HIDE DEF parts
  <2>6. parts = [f \in DOMAIN fields |-> parts[f]]
    BY DEF parts
  <2>7. ASSUME NEW f \in DOMAIN fields
        PROVE  parts[f] = FromField(fields[f], Get(stored.part, f))
    BY DEF parts
  <2>8. QED BY Zenon, <1>1, <2>4, <2>5, <2>6, <2>7 DEF HeldOf, IsHeld, IsRead, FromDict, Version
<1>7. version \in 1..version
  BY <1>3 DEF StoredInv
<1>8. QED BY <1>1, <1>3, <1>4, <1>5, <1>6, <1>7 DEF ClientInv, Version

\* Assign: a field set to what validation lets through, which is then assigned.
LEMMA AssignStep == ClientInv /\ AssignSome(Classes[kind]) => ClientInv'
<1> SUFFICES ASSUME ClientInv, AssignSome(Classes[kind]) PROVE ClientInv'
  OBVIOUS
<1> DEFINE fields == Classes[kind]
<1>0. PICK f \in DOMAIN fields :
        \E v \in {Null, FromField(fields[f], Sample(fields[f]))} : Assign(f, fields[f], v)
  BY DEF AssignSome
<1>1. PICK v \in {Null, FromField(fields[f], Sample(fields[f]))} : Assign(f, fields[f], v)
  BY <1>0
<1> DEFINE x == AssignField(fields[f], v)
<1>2. /\ kind' = kind /\ stored' = stored
      /\ held # Nothing
      /\ raised' = (x = Raises)
      /\ IF raised' THEN held' = held /\ assigned' = assigned
         ELSE /\ held' = [held EXCEPT !.part = Object([Fields(held.part) EXCEPT ![f] = x])]
              /\ assigned' = assigned \union {f}
  BY <1>1 DEF Assign
<1>3. kind \in Kinds /\ StoredInv /\ assigned \subseteq DOMAIN fields
  BY DEF ClientInv
<1>4. StoredInv'
  BY <1>2, <1>3 DEF StoredInv, IsStored, Version, Get
<1>5. raised' \in BOOLEAN
  BY <1>2
<1>6. PICK version \in 1..Version(stored) : HeldOf(version)
  BY <1>2 DEF ClientInv
<1>7. CASE x = Raises
  <2>1. held' = held /\ assigned' = assigned
    BY Zenon, <1>2, <1>7
  <2>2. HeldOf(version)'
    BY Zenon, <1>2, <1>6, <2>1 DEF HeldOf, IsHeld, IsRead, FromDict, Version
  <2>3. QED BY <1>2, <1>3, <1>4, <1>5, <1>6, <2>1, <2>2 DEF ClientInv, Version
<1>8. CASE x # Raises
  <2> DEFINE old == Fields(held.part)
             parts == [old EXCEPT ![f] = x]
  <2>1. /\ held' = [held EXCEPT !.part = Object(parts)]
        /\ assigned' = assigned \union {f}
    BY Zenon, <1>2, <1>8
  <2>2. IsHeld(fields[f], x)
    <3>1. CASE v = Null
      BY <1>8, <3>1 DEF AssignField, IsHeld
    <3>2. CASE v # Null
      <4>1. x = FromField(fields[f], Sample(fields[f])) /\ Sample(fields[f]) \in Values(fields[f])
        BY <1>1, <1>3, <3>2, FieldsAssumption DEF AssignField
      <4>2. QED BY <1>8, <4>1 DEF IsHeld, IsRead
    <3>3. QED BY <3>1, <3>2
  <2>3. /\ held = [metadata |-> FromDict(ObjectMeta, Metadata(version)), part |-> Object(old)]
        /\ held.metadata # Raises
        /\ old = [g \in DOMAIN fields |-> old[g]]
        /\ \A g \in DOMAIN fields : IsHeld(fields[g], old[g])
        /\ version = Version(stored) =>
             \A g \in DOMAIN fields \ assigned :
               old[g] = FromField(fields[g], Get(stored.part, g))
    BY <1>6 DEF HeldOf
  <2> HIDE DEF old, x
  <2>4. /\ parts = [g \in DOMAIN fields |-> parts[g]]
        /\ parts[f] = x
        /\ \A g \in DOMAIN fields \ {f} : parts[g] = old[g]
    BY <2>3
  <2>5. \A g \in DOMAIN fields : IsHeld(fields[g], parts[g])
    BY <2>2, <2>3, <2>4
  <2>6. version = Version(stored) =>
          \A g \in DOMAIN fields \ (assigned \union {f}) :
            parts[g] = FromField(fields[g], Get(stored.part, g))
    BY <2>3, <2>4
  <2> HIDE DEF parts
  <2>7. /\ held' = [metadata |-> FromDict(ObjectMeta, Metadata(version)), part |-> Object(parts)]
        /\ held'.metadata # Raises
        /\ Fields(held'.part) = parts
    BY <2>1, <2>3 DEF Object, Fields
  <2>8. HeldOf(version)'
    BY Zenon, <1>2, <2>1, <2>4, <2>5, <2>6, <2>7 DEF HeldOf, IsHeld, IsRead, FromDict, Version
  <2>9. assigned' \subseteq DOMAIN fields
    BY <1>3, <2>1
  <2>10. QED BY <1>2, <1>3, <1>4, <1>5, <1>6, <2>8, <2>9 DEF ClientInv, Version
<1>9. QED BY <1>7, <1>8

-----------------------------------------------------------------------------
\* A write that the server accepts is of the version the client read: what
\* it stores of a field is what to_dict makes of what the client holds.
LEMMA AcceptedWrite ==
  ASSUME ClientInv, Write, stored' # stored
  PROVE  /\ HeldOf(Version(stored))
         /\ stored' = [metadata |-> Metadata(Version(stored) + 1),
                       part |-> ToDict(kind, held.part)]
         /\ Tag(ToDict(kind, held.part)) = "object"
         /\ \A f \in DOMAIN Classes[kind] :
              Get(ToDict(kind, held.part), f) = ToField(Classes[kind][f], Fields(held.part)[f])
<1>1. /\ held # Nothing
      /\ Current(ToDict(ObjectMeta, held.metadata))
      /\ stored' = [metadata |-> Metadata(Version(stored) + 1), part |-> ToDict(kind, held.part)]
  BY Zenon DEF Write, Replace
<1>2. kind \in Kinds /\ StoredInv
  BY DEF ClientInv
<1>3. PICK version \in 1..Version(stored) : HeldOf(version)
  BY <1>1 DEF ClientInv
<1>4. version \in 1..MaxVersion
  BY <1>2, <1>3, BoundsAssumption DEF StoredInv
<1>5. Get(ToDict(ObjectMeta, held.metadata), "resourceVersion") = ResourceVersion(version)
  <2>1. held.metadata = FromDict(ObjectMeta, Metadata(version)) /\ held.metadata # Raises
    BY <1>3 DEF HeldOf
  <2>2. QED BY <1>4, <2>1, MetadataWritten
<1>6. Get(stored.metadata, "resourceVersion") = ResourceVersion(Version(stored))
  <2>1. stored.metadata = Metadata(Version(stored))
    BY <1>2 DEF StoredInv
  <2>2. QED BY Zenon, <2>1, MetadataVersion
<1>7. version = Version(stored)
  <2>1. ResourceVersion(version) \in {Null, ResourceVersion(Version(stored))}
    BY <1>1, <1>5, <1>6 DEF Current
  <2>2. ResourceVersion(version) # Null
    BY DEF ResourceVersion, Null, Scalar
  <2>3. QED BY <2>1, <2>2 DEF ResourceVersion
<1>8. ASSUME NEW f \in DOMAIN Classes[kind]
      PROVE  Get(ToDict(kind, held.part), f) = ToField(Classes[kind][f], Fields(held.part)[f])
  <2>1. ToField(Classes[kind][f], Null) = Null
    BY <1>2, FieldsAssumption
  <2>2. QED BY <2>1, ToDictParts
<1>9. Tag(ToDict(kind, held.part)) = "object"
  BY DEF ToDict, ToFields, Object, Tag
<1>10. QED BY <1>1, <1>3, <1>7, <1>8, <1>9

LEMMA WriteStep == ClientInv /\ Write => ClientInv'
<1> SUFFICES ASSUME ClientInv, Write PROVE ClientInv'
  OBVIOUS
<1>1. /\ kind' = kind /\ held' = Nothing /\ assigned' = {}
      /\ Version(stored) < MaxVersion
      /\ raised' = ~Current(ToDict(ObjectMeta, held.metadata))
  BY DEF Write, Replace
<1>2. raised' \in BOOLEAN
  BY <1>1
<1>3. kind \in Kinds /\ StoredInv
  BY DEF ClientInv
<1>4. CASE stored' = stored
  <2>1. StoredInv'
    BY <1>1, <1>3, <1>4 DEF StoredInv, IsStored, Version, Get
  <2>2. QED BY <1>1, <1>2, <1>3, <2>1 DEF ClientInv
<1>5. CASE stored' # stored
  <2> DEFINE doc == ToDict(kind, held.part)
             next == Version(stored) + 1
  <2>1. /\ HeldOf(Version(stored))
        /\ stored' = [metadata |-> Metadata(next), part |-> doc]
        /\ Tag(doc) = "object"
        /\ \A f \in DOMAIN Classes[kind] :
             Get(doc, f) = ToField(Classes[kind][f], Fields(held.part)[f])
    BY <1>5, AcceptedWrite
  <2>2. \A f \in DOMAIN Classes[kind] : IsStored(Classes[kind][f], Get(doc, f))
    BY <1>3, <2>1, HeldField DEF HeldOf
  <2>3. Version(stored') = next /\ stored'.part = doc
    BY <2>1, MetadataVersion
  <2>4. next \in 1..MaxVersion
    BY <1>1, <1>3, BoundsAssumption DEF StoredInv
  <2> HIDE DEF doc, next
  <2>5. StoredInv'
    BY <1>1, <2>1, <2>2, <2>3, <2>4 DEF StoredInv, IsStored, Version, Get
  <2>6. QED BY <1>1, <1>2, <1>3, <2>5 DEF ClientInv
<1>6. QED BY <1>4, <1>5

\* Someone else's write leaves the client with an older version.
LEMMA OthersStep == ClientInv /\ OthersWriteSome(Classes[kind]) => ClientInv'
<1> SUFFICES ASSUME ClientInv, OthersWriteSome(Classes[kind]) PROVE ClientInv'
  OBVIOUS
<1> DEFINE next == Version(stored) + 1
<1>1. PICK doc \in Rewrites(Classes[kind]) : OthersWrite(doc)
  BY DEF OthersWriteSome
<1>2. /\ Version(stored) < MaxVersion
      /\ stored' = [metadata |-> Metadata(next), part |-> doc]
      /\ kind' = kind /\ held' = held /\ assigned' = assigned /\ raised' = raised
  BY <1>1 DEF OthersWrite
<1>3. kind \in Kinds /\ StoredInv
  BY DEF ClientInv
<1>4. Tag(doc) = "object" /\ \A f \in DOMAIN Classes[kind] : Get(doc, f) \in Values(Classes[kind][f])
  BY <1>1, <1>3, DocumentsAssumption
<1>5. Version(stored') = next /\ stored'.part = doc
  BY <1>2, MetadataVersion
<1>6. Version(stored) \in Nat /\ next \in 1..MaxVersion
  BY <1>2, <1>3, BoundsAssumption DEF StoredInv
<1>7. StoredInv'
  <2> HIDE DEF next
  <2>1. QED BY <1>2, <1>4, <1>5, <1>6 DEF StoredInv, IsStored, Version, Get
<1>8. ASSUME held' # Nothing PROVE \E version \in 1..Version(stored') : HeldOf(version)'
  <2>1. PICK version \in 1..Version(stored) : HeldOf(version)
    BY <1>2, <1>8 DEF ClientInv
  <2>2. version \in 1..next /\ version # next
    BY <1>6, <2>1
  <2>3. HeldOf(version)'
    BY Zenon, <1>2, <1>5, <2>1, <2>2 DEF HeldOf, IsHeld, IsRead, FromDict, Version
  <2>4. QED BY <1>5, <2>2, <2>3
<1>9. QED BY <1>2, <1>7, <1>8 DEF ClientInv, Version

LEMMA ClientStep == ClientInv /\ [Next]_vars => ClientInv'
<1> SUFFICES ASSUME ClientInv, [Next]_vars PROVE ClientInv'
  OBVIOUS
<1>1. CASE UNCHANGED vars
  BY Zenon, <1>1
  DEF vars, ClientInv, StoredInv, HeldOf, IsHeld, IsRead, IsStored, FromDict, Version, Get
<1>2. QED BY <1>1, ReadStep, AssignStep, WriteStep, OthersStep DEF Next

LEMMA ClientAlways == Spec => []ClientInv
<1>1. QED BY InitClient, ClientStep, PTL DEF Spec

-----------------------------------------------------------------------------
(***************************************************************************)
(* Whatever was read and set, the client holds instances of the classes:   *)
(* a value of its type in every field, None only where it is Optional      *)
(* (from_dict, and model_config's validate_assignment).                    *)
(***************************************************************************)
THEOREM HoldsInstances == Spec => []TypeOK
<1>1. ASSUME ClientInv PROVE TypeOK
  <2>1. ASSUME held # Nothing
        PROVE  Instance(ObjectMeta, held.metadata) /\ Instance(kind, held.part)
    <3>1. PICK version \in 1..Version(stored) : HeldOf(version)
      BY <1>1, <2>1 DEF ClientInv
    <3>2. version \in 1..MaxVersion /\ kind \in Kinds
      BY <1>1, <3>1, BoundsAssumption DEF ClientInv, StoredInv
    <3>3. held.metadata = FromDict(ObjectMeta, Metadata(version)) /\ held.metadata # Raises
      BY <3>1 DEF HeldOf
    <3>4. /\ DOMAIN Fields(held.part) = DOMAIN Classes[kind]
          /\ \A f \in DOMAIN Classes[kind] : IsHeld(Classes[kind][f], Fields(held.part)[f])
      BY <3>1 DEF HeldOf
    <3>5. Instance(kind, held.part)
      BY <3>2, <3>4, HeldField DEF Instance, InstanceOf
    <3>6. QED BY <3>2, <3>3, <3>5, MetadataWritten
  <2>2. QED BY <1>1, <2>1 DEF ClientInv, TypeOK
<1>2. QED BY <1>1, ClientAlways, PTL

(***************************************************************************)
(* What to_dict writes of whatever the client holds is a document the      *)
(* schema allows, and from_dict reads it as the same instance, with the    *)
(* default where the client had set None.                                  *)
(***************************************************************************)
THEOREM WritesWhatItReads == Spec => []Rereads
<1>1. ASSUME ClientInv, held # Nothing
      PROVE  RereadsAs(Classes[kind], held.part, ToDict(kind, held.part))
  <2> DEFINE fields == Classes[kind]
             doc == ToDict(kind, held.part)
             parts == [f \in DOMAIN fields |-> FromField(fields[f], Get(doc, f))]
             again == FromObject(FromField, fields, doc)
  <2>1. PICK version \in 1..Version(stored) : HeldOf(version)
    BY <1>1 DEF ClientInv
  <2>2. kind \in Kinds
    BY <1>1 DEF ClientInv
  <2>3. ASSUME NEW f \in DOMAIN fields
        PROVE  /\ IsHeld(fields[f], Fields(held.part)[f])
               /\ Get(held.part, f) = Fields(held.part)[f]
               /\ Get(doc, f) = ToField(fields[f], Fields(held.part)[f])
    <3>1. /\ IsHeld(fields[f], Fields(held.part)[f])
          /\ DOMAIN Fields(held.part) = DOMAIN fields
      BY <2>1 DEF HeldOf
    <3>2. ToField(fields[f], Null) = Null
      BY <2>2, FieldsAssumption
    <3>3. QED BY <3>1, <3>2, ToDictParts DEF Get
  <2>4. ASSUME NEW f \in DOMAIN fields
        PROVE  /\ ValidField(fields[f], Get(doc, f))
               /\ \/ parts[f] = Get(held.part, f)
                  \/ Get(held.part, f) = Null /\ parts[f] = Scalar(Missing(fields[f]))
    BY <2>2, <2>3, HeldField
  <2>5. again = Object(parts)
    <3>1. ASSUME NEW f \in DOMAIN fields PROVE parts[f] # Raises
      <4>1. IsStored(fields[f], Get(doc, f)) /\ ValidField(fields[f], Get(doc, f))
        BY <2>2, <2>3, HeldField
      <4>2. QED BY <2>2, <4>1, StoredField
    <3>2. ~AnyRaises(parts)
      BY Zenon, <3>1 DEF AnyRaises
    <3>3. Tag(doc) = "object"
      BY DEF ToDict, ToFields, Object, Tag
    <3>4. QED BY Zenon, <3>2, <3>3, FromDictParts DEF FromDict
  <2>6. \A f \in DOMAIN fields : Get(again, f) = parts[f]
    BY <2>5 DEF Get, Object, Fields
  <2>7. QED BY Zenon, <2>4, <2>6 DEF RereadsAs, ValidFields
<1>2. ClientInv => Rereads
  BY <1>1 DEF Rereads
<1>3. QED BY <1>2, ClientAlways, PTL

(***************************************************************************)
(* No lost update: a write by the client that the server accepts changes   *)
(* nothing the client did not set, whatever others wrote in between.       *)
(***************************************************************************)
THEOREM NoLostUpdate == Spec => WriteKeepsRest
<1> DEFINE Keeps ==
      (stored' # stored /\ held' # held /\ Valid(kind, stored.part)) =>
        \A f \in DOMAIN Classes[kind] \ assigned :
          SameField(Classes[kind][f], Get(stored.part, f), Get(stored'.part, f))
<1>1. ASSUME ClientInv, [Next]_vars PROVE [Keeps]_vars
  <2> SUFFICES ASSUME stored' # stored, held' # held, Valid(kind, stored.part),
                      NEW f \in DOMAIN Classes[kind] \ assigned
               PROVE  SameField(Classes[kind][f], Get(stored.part, f), Get(stored'.part, f))
    OBVIOUS
  <2>1. Write
    BY Zenon, <1>1 DEF Next, vars, Read, AssignSome, Assign, OthersWriteSome, OthersWrite
  <2>2. /\ HeldOf(Version(stored))
        /\ stored'.part = ToDict(kind, held.part)
        /\ Get(ToDict(kind, held.part), f) = ToField(Classes[kind][f], Fields(held.part)[f])
    BY <1>1, <2>1, AcceptedWrite
  <2>3. Fields(held.part)[f] = FromField(Classes[kind][f], Get(stored.part, f))
    BY <2>2 DEF HeldOf
  <2>4. kind \in Kinds /\ StoredInv
    BY <1>1 DEF ClientInv
  <2>5. IsStored(Classes[kind][f], Get(stored.part, f))
    BY <2>4 DEF StoredInv
  <2>6. ValidField(Classes[kind][f], Get(stored.part, f))
    BY DEF Valid, ValidFields
  <2>7. QED BY <2>2, <2>3, <2>4, <2>5, <2>6, StoredField
<1>2. QED BY <1>1, ClientAlways, PTL DEF Spec, WriteKeepsRest
=============================================================================
