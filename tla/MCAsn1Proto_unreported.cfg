\* A BIT STRING type vanishes; an OBJECT IDENTIFIER value's error line is no comment.
CONSTANTS
  NoId = NoId
  SrcFileName <- MCSrcFileName
  Imports <- MCImports
  IntValues <- MCIntValues
  EnumValues <- MCEnumValues
  MaxEnumItems = 3
  Modules <- UnreportedWitness
SPECIFICATION Spec
INVARIANT EveryDefinitionReported
\* The translator stops after emitting the module.
CHECK_DEADLOCK FALSE
