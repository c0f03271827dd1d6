---------------------------- MODULE DurableTasks ----------------------------
(***************************************************************************)
(* What a client of the jobs table is promised, with no leases, workers or *)
(* clocks: a submitted task is handed out some number of times and then    *)
(* settles once, either finished by a run or given up after its whole      *)
(* retry budget was spent.  JobQueue is shown to implement this.           *)
(***************************************************************************)
EXTENDS Naturals

CONSTANTS Tasks,    \* the tasks that may be submitted
          Budget    \* runs a task is entitled to before it is given up

VARIABLES status,   \* status[t]: "absent", "pending", "done" or "dead"
          runs      \* runs[t]: how often t was handed out

vars == <<status, runs>>

Init ==
  /\ status = [t \in Tasks |-> "absent"]
  /\ runs = [t \in Tasks |-> 0]

Submit(t) ==
  /\ status[t] = "absent"
  /\ status' = [status EXCEPT ![t] = "pending"]
  /\ UNCHANGED runs

HandOut(t) ==
  /\ status[t] = "pending"
  /\ runs' = [runs EXCEPT ![t] = @ + 1]
  /\ UNCHANGED status

Finish(t) ==
  /\ status[t] = "pending"
  /\ runs[t] > 0
  /\ status' = [status EXCEPT ![t] = "done"]
  /\ UNCHANGED runs

GiveUp(t) ==
  /\ status[t] = "pending"
  /\ runs[t] >= Budget
  /\ status' = [status EXCEPT ![t] = "dead"]
  /\ UNCHANGED runs

Next ==
  \E t \in Tasks : Submit(t) \/ HandOut(t) \/ Finish(t) \/ GiveUp(t)

Spec == Init /\ [][Next]_vars
=============================================================================
