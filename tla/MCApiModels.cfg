CONSTANTS
  Classes <- MCClasses
  Kinds <- MCKinds
  Edited <- MCEdited
  MaxVersion = 3
  MaxAssigned = 1
  Values <- Variants
  Documents <- AllDocuments
  Rewrites <- LeastAndFull
  Sample <- SampleValue
  FromField <- FieldFromDict
  ToField <- FieldToDict
  ValidField <- ValidValue
  SameField <- SameValue
  InstanceField <- InstanceValue
SPECIFICATION Spec
INVARIANT TypeOK
INVARIANT ReadsValid
INVARIANT Rereads
PROPERTY WriteKeepsRest
CHECK_DEADLOCK FALSE
