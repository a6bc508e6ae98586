SPECIFICATION MCSpec
CONSTANTS
  Tables <- MCTables
  Clients <- MCClients
  BATCH_SIZE = 1
  Mirrors = {m1, m2}
  MaxRow = 3
  MaxFaults = 1
INVARIANTS WarehouseKeepsUp
PROPERTY EveryRowMirrored
