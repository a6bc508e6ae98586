----------------------------- MODULE MCScheduler -----------------------------
(* Small instances of Scheduler: a cron is the set of units of the day at    *)
(* which it fires.                                                           *)
EXTENDS Scheduler, FiniteSetsExt, TLC

CONSTANTS t1, t2

Daily == {1}
Twice == {1, 3}
DailyOrTwice == {Daily, Twice}
DailyOneTwiceTwo == {[cron |-> Daily, cap |-> 1], [cron |-> Twice, cap |-> 2]}
CronNext(c, t) == Min({u \in t + 1 .. t + DayLength : u % DayLength \in c})
Alike == Permutations(Tenants)
TwoJobs == <<"mirror", "crawl">>
=============================================================================
