------------------------------ MODULE RunLifecycle ------------------------------
(* What the runs promise to whoever reads them: rows only ever leave the set of
   open ones, and only while their run is executed; `completed` is final and says
   that none is left, `failed` that some are; and no run touches another. *)
EXTENDS FinderTypes

CONSTANT Runs

VARIABLES
  status,  \* run -> runs.status
  open     \* run -> its rows that are `pending`

Init ==
  /\ status = [r \in Runs |-> "pending"]
  /\ open = [r \in Runs |-> open[r]]

(* execute_run begins, for the first time or again. *)
Execute(r) ==
  /\ status[r] # "completed"
  /\ status' = [status EXCEPT ![r] = "running"] /\ UNCHANGED open

(* A domain commits. *)
Settle(r) ==
  /\ status[r] = "running"
  /\ open'[r] \subseteq open[r]
  /\ open' = [open EXCEPT ![r] = open'[r]] /\ UNCHANGED status

(* execute_run commits how it ended. *)
Finish(r) ==
  /\ status[r] = "running"
  /\ \E end \in RunEnds :
       /\ end = "completed" => open[r] = {}
       /\ end = "failed" => open[r] # {}
       /\ status' = [status EXCEPT ![r] = end]
  /\ UNCHANGED open

Next == \E r \in Runs : Execute(r) \/ Settle(r) \/ Finish(r)

Spec == Init /\ [][Next]_<<status, open>>
=================================================================================
