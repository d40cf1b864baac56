CONSTANTS
  r1 = r1
  r2 = r2
  n1 = n1
  n2 = n2
  n3 = n3
  Locate = {0, 1}
  OrderRef = {r1, r2}
  Price = {1, 2}
  Node = {n1, n2, n3}
  ShareMod = 3
  TotalMod = 9
  TallyMod = 1
  NDEBUG = FALSE
SYMMETRY Symmetry
SPECIFICATION Spec
INVARIANT NoOpUntilSetLocate
CHECK_DEADLOCK FALSE
