SPECIFICATION Spec
CONSTANTS
  Calls = {c1, c2, c3}
  Original = Original
  Missing = Missing
SYMMETRY Interchangeable
INVARIANT
  NeverLostHistory
CHECK_DEADLOCK FALSE
