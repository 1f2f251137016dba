----------------------------- MODULE LookupPromise -----------------------------
(* What FinderRun takes the lookups of a domain's people for: each gets one
   verdict after the other for as long as they are misses, and ends in an outcome
   that its last verdict allows, or is left pending when the run stops. *)
EXTENDS FinderTypes

VARIABLES
  last,   \* the last verdict, or NoVerdict
  status  \* the row's status

Init == last = NoVerdict /\ status = Pending

(* A verdict, which may settle the row at once. *)
Verify ==
  /\ status = Pending /\ GoesOn(last)
  /\ last' \in Verdicts
  /\ status' \in {Pending} \cup LeadsTo(last')

Resolve ==
  /\ status = Pending
  /\ status' \in LeadsTo(last)
  /\ UNCHANGED last

(* The next person is looked up once this one is settled. *)
Another ==
  /\ status # Pending
  /\ last' = NoVerdict /\ status' = Pending

Next == Verify \/ Resolve \/ Another

Spec == Init /\ [][Next]_<<last, status>>
================================================================================
