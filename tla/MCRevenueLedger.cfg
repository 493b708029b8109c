SPECIFICATION LedgerSpec
CONSTANTS
  k1 = k1
  k2 = k2
  s1 = s1
  s2 = s2
  p1 = p1
  p2 = p2
  v1 = v1
  v2 = v2
  PayoutKeys = {k1, k2}
  SettlementIds = {s1, s2}
  PayoutIds = {p1, p2}
  ProviderIds = {v1, v2}
  NoProvider = NoProvider
  ZapAmounts <- MCZapAmounts
  PayoutAmounts <- MCPayoutAmounts
  Roundings <- MCRoundings
  Fees <- MCFees
SYMMETRY Symmetry
CHECK_DEADLOCK FALSE
INVARIANTS
  BooksBalance
  ReservesAreHeld
PROPERTIES
  OutcomesStand
