SPECIFICATION FairSpec
CONSTANTS
  k1 = k1
  s1 = s1
  s2 = s2
  p1 = p1
  p2 = p2
  v1 = v1
  h1 = h1
  r1 = r1
  PayoutKeys = {k1}
  SettlementIds = {s1, s2}
  PayoutIds = {p1, p2}
  ProviderIds = {v1}
  NoProvider = NoProvider
  ZapAmounts <- MCZapAmounts
  PayoutAmounts <- MCPayoutAmounts
  Roundings <- MCRoundings
  Fees <- MCFees
  Webhooks = {h1}
  Reconcilers = {r1}
  ZapKey <- MCZapKey
  ZapAmount <- MCZapAmount
  MinimumPayout = 14000
  MaxRoutingFee = 12000
  Quotes <- MCQuotes
  MaxSendables <- MCMaxSendables
  MaxCrashes = 1
CHECK_DEADLOCK FALSE
INVARIANTS
  TypeOK
  PayoutsAreSafe
PROPERTIES
  KeepsAccount
  OutcomeRecorded
