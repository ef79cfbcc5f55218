\* 4294967295 becomes int32.const = -1; an IA5String member becomes int32.
CONSTANTS
  NoId = NoId
  SrcFileName <- MCSrcFileName
  Imports <- MCImports
  IntValues <- MCIntValues
  EnumValues <- MCEnumValues
  MaxEnumItems = 3
  Modules <- DomainWitness
SPECIFICATION Spec
INVARIANT FieldsKeepSourceDomain
\* The translator stops after emitting the module.
CHECK_DEADLOCK FALSE
