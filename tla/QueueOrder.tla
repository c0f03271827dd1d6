----------------------------- MODULE QueueOrder -----------------------------
(***************************************************************************)
(* JobQueue with one history variable, to say what ORDER BY available_at,  *)
(* created_at in LeaseNextJob gives a job that waits.                      *)
(***************************************************************************)
EXTENDS JobQueue

VARIABLE passed   \* passed[i][j]: leases of j while i could have been leased

orderVars == <<vars, passed>>

OrderInit == Init /\ passed = [i \in Jobs |-> [j \in Jobs |-> 0]]

\* The job this step leases, if any, passes every other leasable job; a job that
\* is leased starts to count afresh.
Leased(j) == jobs'[j].attempts > jobs[j].attempts

Count ==
  passed' = [i \in Jobs |-> [j \in Jobs |->
               IF Leased(i) \/ ~Leasable(i) THEN 0
               ELSE IF Leased(j) THEN passed[i][j] + 1
               ELSE passed[i][j]]]

OrderNext == Next /\ Count

OrderSpec == OrderInit /\ [][OrderNext]_orderVars

\* JobQueue's fairness: counting stops nobody.
FairOrderSpec == OrderSpec /\ Fairness

-----------------------------------------------------------------------------
\* A waiting job is passed at most once by each other job, plus once per fault:
\* a job that keeps failing goes behind it at every backoff, and only a lease
\* that lapses keeps its old place in line.
BoundedOvertaking == \A i, j \in Jobs : passed[i][j] <= 1 + faults
=============================================================================
