CONSTANTS
  r1 = r1
  r2 = r2
  n1 = n1
  n2 = n2
  Locate = {0, 1}
  OrderRef = {r1, r2}
  Price = {1, 2}
  Node = {n1, n2}
  ShareMod = 2
  TotalMod = 3
  TallyMod = 1
  NDEBUG = TRUE
SYMMETRY Symmetry
SPECIFICATION DamageSpec
INVARIANT CheckRepExact
