\* A CHOICE alternative of type SEQUENCE OF becomes a repeated oneof field.
CONSTANTS
  NoId = NoId
  SrcFileName <- MCSrcFileName
  Imports <- MCImports
  IntValues <- MCIntValues
  EnumValues <- MCEnumValues
  MaxEnumItems = 3
  Modules <- OneofWitness
SPECIFICATION Spec
INVARIANT OneofFieldsUnlabelled
\* The translator stops after emitting the module.
CHECK_DEADLOCK FALSE
