\* Casing of ASN.1 names of up to four bytes over both letter cases,
\* a digit, the hyphen and the '&' of field references; escaping of
\* values of up to two letters and quotes.
CONSTANTS
  NameChars = {"a", "b", "A", "B", "2", "-", "&"}
  ValueChars <- QuoteChars
  MaxLen = 4
  Names <- NameInputs
  Values <- ShortValues
SPECIFICATION Spec
INVARIANT TypeOK
INVARIANT PascalIsProtoIdent
INVARIANT SnakeLowerIdempotent
\* Each input is rewritten once by each function; the emitter then stops.
CHECK_DEADLOCK FALSE
