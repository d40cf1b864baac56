CONSTANTS
  r1 = r1
  r2 = r2
  r3 = r3
  n1 = n1
  n2 = n2
  n3 = n3
  AAPL = AAPL
  MSFT = MSFT
  Locate = {0, 1, 2}
  OrderRef = {r1, r2, r3}
  Price = {1, 2}
  Node = {n1, n2, n3}
  ShareMod = 4
  TotalMod = 16
  TallyMod = 1
  NDEBUG = FALSE
  Stock = {AAPL, MSFT}
  symbol_ = AAPL
  StockOf <- Listing
  MaxTrades = 1
SYMMETRY Symmetry
SPECIFICATION ReplaySpec
INVARIANTS
  RepHolds
  NeverAborts
  QueuesMirrorExchange
  TopOfBook
