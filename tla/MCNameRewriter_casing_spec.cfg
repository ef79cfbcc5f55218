\* The emitter's casings against the examples of the spec, and two names
\* (ab-c, abC) that every casing of the emitter maps to one name.
CONSTANTS
  NameChars = {"a", "b", "c", "A", "B", "C", "2", "-", "&"}
  ValueChars <- QuoteChars
  MaxLen = 10
  Names <- NameSpecInputs
  Values <- OverflowValues
SPECIFICATION Spec
INVARIANT EmittedNamesAsSpecified
CHECK_DEADLOCK FALSE
