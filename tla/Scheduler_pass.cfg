SPECIFICATION Spec
CONSTANTS
  t1 = t1  t2 = t2
  Tenants = {t1, t2}  Crons <- DailyOrTwice  Caps = {1, 2}
  NextFire <- CronNext
  DayLength = 4  Window = 2  Sample = 4  MirrorHour = 1  NightlyJobs <- TwoJobs
  StartWith <- DailyOneTwiceTwo
  MaxLate = 1  MaxClock = 5  MaxEdits = 1  MaxFaults = 1
  NoCap = NoCap  Unarmed = Unarmed  NoOne = NoOne
SYMMETRY Alike
INVARIANTS SlotOnce CapBitesForCause NoneLeftBehind NightsKept
