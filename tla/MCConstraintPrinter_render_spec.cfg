\* ("ab")("cd") | "ef" at every call site.
CONSTANTS
  RangeStarts <- MCRangeStarts
  RangeStops <- MCRangeStops
  Constraints <- RenderWitness
SPECIFICATION Spec
INVARIANT RendersAsSpecified
\* Each call prints its tree once; the caller then goes on.
CHECK_DEADLOCK FALSE
