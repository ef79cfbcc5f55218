\* ../e2ap.asn importing E2AP-IEs and E2AP-IES: package "pkg__/e2ap_asn",
\* and one import path written twice.
CONSTANTS
  NoId = NoId
  SrcFileName <- PrologueSrcWitness
  Imports <- PrologueImportWitness
  IntValues <- MCIntValues
  EnumValues <- MCEnumValues
  MaxEnumItems = 3
  Modules <- EnumWitness
SPECIFICATION Spec
INVARIANT PrologueIsValidProto
\* The translator stops after emitting the module.
CHECK_DEADLOCK FALSE
