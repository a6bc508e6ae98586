SPECIFICATION Spec
CONSTANTS
  r1 = r1  r2 = r2  t1 = t1  sched = sched  admin = admin  w1 = w1  w2 = w2
  Runs = {r1, r2}
  Tenants = {t1}
  Owner <- OneOwner
  ModeSets <- ApiOnly
  Actors = {sched, admin}
  Scheduler = sched
  Workers = {w1}
  Serves <- CombinedServes
  EnqueueResults <- Acknowledged
  TtlReachable = TRUE
  SlowEnqueue = FALSE
  MaxResumes = 1
  MaxKills = 0
  NoActor = NoActor  NoRun = NoRun  NoJob = NoJob
INVARIANT TriggersExclude
PROPERTY ImplementsRunLife
SYMMETRY RunSymmetry
CONSTRAINT OneResumed
