\* toSnakeCaseDup("aA") and escapeQuotesDup("\"") each store their
\* terminator one byte past the realloc'ed buffer.
CONSTANTS
  NameChars = {"a", "A"}
  ValueChars <- QuoteChars
  MaxLen = 2
  Names <- OverflowNames
  Values <- OverflowValues
SPECIFICATION Spec
INVARIANT RewritersWriteInBounds
CHECK_DEADLOCK FALSE
