SPECIFICATION FairSpec
CONSTANTS
  s1 = s1  s2 = s2  p1 = p1  d1 = d1  cellS = cellS  cellP = cellP  cellD = cellD
  Items = {s1, s2, p1, d1}
  KeyOf <- Keyed
  Twins = {d1}
  Est <- Estimates
  PricesOf <- Priced
  ActiveSets <- Edited
  CachedElsewhere = {}
  Cap = 7
  OtherSpend = 1
  Concurrency = 2
  MaxResumes = 1
  MaxKills = 1
INVARIANTS LedgerExact EachCellOnce
PROPERTY EveryDispatchEnds
CHECK_DEADLOCK FALSE
