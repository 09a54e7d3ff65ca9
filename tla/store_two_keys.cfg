SPECIFICATION Spec
CONSTANTS
  Keys = {k1, k2}
  Pages = {p1, p2}
  MaxRecords = 2
INVARIANT PutPagesServed
CHECK_DEADLOCK FALSE
