------------------------------ MODULE RunLife ------------------------------
(***************************************************************************)
(* What the run service promises its callers, without queues, workers or   *)
(* reapers: a run begins once, ends, and lives again only when someone     *)
(* resumes it; and a run is begun only while the tenant has no other live  *)
(* run that was never resumed.  RunLifecycle implements this.              *)
(***************************************************************************)
EXTENDS Naturals

CONSTANTS Runs, Tenants, Owner

VARIABLES
  life,      \* run -> "absent", "live" or "over"
  revivals   \* run -> how often it was resumed

lifeVars == <<life, revivals>>

LifeInit ==
  /\ life = [r \in Runs |-> "absent"]
  /\ revivals = [r \in Runs |-> 0]

LiveOnes == {r \in Runs : life[r] = "live"}
Over(S) == [r \in Runs |-> IF r \in S THEN "over" ELSE life[r]]

\* Runs end: by their own job, by an error, or found dead by someone.
End(S) ==
  /\ S \subseteq LiveOnes
  /\ life' = Over(S)
  /\ UNCHANGED revivals

\* A run begins, or is refused and over at once; what was found dead on the
\* way ends with the same commit.
Begin(r, S, as) ==
  /\ life[r] = "absent" /\ S \subseteq LiveOnes
  /\ \A q \in LiveOnes \ S : Owner[q] = Owner[r] => revivals[q] > 0
  /\ life' = [Over(S) EXCEPT ![r] = as]
  /\ UNCHANGED revivals

\* A resume; a second one may reach a run the first has just brought back.
Revive(r, S) ==
  /\ life[r] # "absent" /\ S \subseteq LiveOnes
  /\ life' = [Over(S) EXCEPT ![r] = "live"]
  /\ revivals' = [revivals EXCEPT ![r] = @ + 1]

LifeNext ==
  \E S \in SUBSET Runs :
    \/ End(S)
    \/ \E r \in Runs : Begin(r, S, "live") \/ Begin(r, S, "over") \/ Revive(r, S)

LifeSpec == LifeInit /\ [][LifeNext]_lifeVars
=============================================================================
