SPECIFICATION Spec
CONSTANTS
  Elem = {l1, l2, l3, l4, l5}
  Pri = {0, 1, 2}
  n = 5
  NULL = NULL
SYMMETRY Symmetry
INVARIANTS TypeOK HeapOrdered PosExact
PROPERTIES PrioritySpec
