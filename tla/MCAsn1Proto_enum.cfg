CONSTANTS
  NoId = NoId
  SrcFileName <- MCSrcFileName
  Imports <- MCImports
  IntValues <- MCIntValues
  EnumValues <- MCEnumValues
  MaxEnumItems = 3
  Modules <- EnumModules
SPECIFICATION Spec
INVARIANTS
  EnumValuesPreserved
CHECK_DEADLOCK FALSE
