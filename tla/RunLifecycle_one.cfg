SPECIFICATION FairSpec
CONSTANTS
  r1 = r1  r2 = r2  t1 = t1  sched = sched  admin = admin  w1 = w1  w2 = w2
  Runs = {r1}
  Tenants = {t1}
  Owner <- OneOwner
  ModeSets <- ChainedOrScrape
  Actors = {sched, admin}
  Scheduler = sched
  Workers = {w1, w2}
  Serves <- SplitServes
  EnqueueResults <- Acknowledged
  TtlReachable = FALSE
  SlowEnqueue = TRUE
  MaxResumes = 1
  MaxKills = 1
  NoActor = NoActor  NoRun = NoRun  NoJob = NoJob
INVARIANTS SingleOwner FinishedIsProcessed
PROPERTIES OnlyResumeRevives EveryRunEnds
