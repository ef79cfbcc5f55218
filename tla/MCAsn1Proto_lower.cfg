CONSTANTS
  NoId = NoId
  SrcFileName <- MCSrcFileName
  Imports <- MCImports
  IntValues <- MCIntValues
  EnumValues = {0, 1}
  MaxEnumItems = 2
  Modules <- LowerModules
SPECIFICATION FairSpec
INVARIANTS
  RepeatedOnlyFromSequenceOf
  ChoiceIsSingleOneof
  PrologueIsValidProto

  
CHECK_DEADLOCK FALSE
