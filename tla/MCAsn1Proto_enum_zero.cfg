\* ENUMERATED { e1(1), e2(-1), e3(0) } starts at 1 and has two entries 0.
CONSTANTS
  NoId = NoId
  SrcFileName <- MCSrcFileName
  Imports <- MCImports
  IntValues <- MCIntValues
  EnumValues <- MCEnumValues
  MaxEnumItems = 3
  Modules <- EnumWitness
SPECIFICATION Spec
INVARIANT EnumZeroFirstAndUnique
\* The translator stops after emitting the module.
CHECK_DEADLOCK FALSE
