SPECIFICATION Spec
CONSTANTS
  a1 = a1  a2 = a2  a3 = a3  b1 = b1  aio = aio  web = web
  Items = {a1, a2, a3, b1}
  Surfaces = {aio, web}
  SurfaceOf <- On
  Orders <- Edited
  Cost <- Prices
  Extra <- Token
  Serp = {aio}
  Attempts = 2
  Cap = 7
  OtherSpend = 1
  Threshold = 2
  ADone = 1
  ACost = 1
  MaxResumes = 1
  MaxKills = 1
INVARIANTS SpendBounded BreakerExact EachCellOnce
CHECK_DEADLOCK FALSE
