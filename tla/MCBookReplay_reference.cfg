CONSTANTS
  r1 = r1
  r2 = r2
  r3 = r3
  n1 = n1
  n2 = n2
  n3 = n3
  AAPL = AAPL
  MSFT = MSFT
  Locate = {0, 1}
  OrderRef = {r1, r2, r3}
  Price = {1, 2}
  Node = {n1, n2, n3}
  ShareMod = 3
  TotalMod = 9
  TallyMod = 9
  NDEBUG = FALSE
  Stock = {AAPL, MSFT}
  symbol_ = AAPL
  StockOf <- Listing
  MaxTrades = 1
SYMMETRY Symmetry
SPECIFICATION ReplaySpec
PROPERTY RefinesReference
