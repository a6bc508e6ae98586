--------------------------- MODULE MCRunLifecycle ---------------------------
(* Small instances of RunLifecycle.                                         *)
EXTENDS RunLifecycle

CONSTANTS r1, r2, t1, sched, admin, w1, w2

\* One tenant that owns every run.
OneOwner == [r \in Runs |-> t1]
\* docker-compose: one worker per queue.
SplitServes == [w \in Workers |-> IF w = w1 THEN {"default"} ELSE {"scrape"}]
\* Render: a worker drains both queues; here two instances of it.
CombinedServes == [w \in Workers |-> QueueNames]
ChainedOrScrape == {{"A", "B"}, {"B"}}
ChainedOnly == {{"A", "B"}}
ApiOnly == {{"A"}}
RunSymmetry == Permutations(Runs)
Acknowledged == {"ok", "lost"}
\* Bound of lifecycle_two_runs: only one of the runs is resumed.
OneResumed == Cardinality({r \in Runs : resumes[r] > 0}) =< 1
=============================================================================
