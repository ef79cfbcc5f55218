\* Every constraint tree of MCConstraintPrinter at every call site.
CONSTANTS
  RangeStarts <- MCRangeStarts
  RangeStops <- MCRangeStops
  Constraints <- PrinterConstraints
SPECIFICATION Spec
INVARIANT BoundRulesMatchConstraint
INVARIANT ValuesMatchNotation
\* Each call prints its tree once; the caller then goes on.
CHECK_DEADLOCK FALSE
