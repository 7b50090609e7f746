SPECIFICATION Spec
CONSTANTS
  None = None
  Unread = Unread
  t1 = t1
  t2 = t2
  p1 = p1
  p2 = p2
  Procs = {p1, p2}
  Operators = {p1}
  StartTerms = t1
  StartPrice = 1
  Terms = {t1, t2}
  Docs = {d1}
  Price <- Amounts
  PriceEdits <- SomePrices
  PlanEdits <- SomePlans
  MaxEdits = 2
INVARIANTS
  RefusalIsHonest
  StaleQuoteHasReason
  ChargedAsShown
