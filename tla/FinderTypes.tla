------------------------------ MODULE FinderTypes ------------------------------
(* The vocabulary the finder's modules share: verdicts, row and run statuses. *)

(* VerdictStatus: what a verifier may say of an address. *)
Verdicts == {"valid", "invalid", "catchall", "unknown", "error"}
NoVerdict == "none"   \* no row in `verifications`, or no answer in hand
Storable == Verdicts \ {"error"}

Pending == "pending"

(* The row statuses process_domain and execute_run leave alone. *)
Terminal == {"valid", "catchall", "catchall_pattern", "not_found",
             "insufficient_name", "personal_domain", "error"}
RowStatuses == Terminal \cup {Pending}

(* The statuses create_run and execute_run give a run. *)
RunStatuses == {"pending", "running", "completed", "stopped", "failed"}
RunEnds == {"completed", "stopped", "failed"}

(* The lookup goes on after a miss; a hit, a catch-all or an error ends it. *)
GoesOn(v) == v \in {NoVerdict, "invalid", "unknown"}

(* The status process_person may give after its last verdict.  After a miss
   or a catch-all the address may still come from the people Hunter found. *)
LeadsTo(v) ==
  CASE v = "valid" -> {"valid"}
    [] v = "error" -> {"error", "not_found"}
    [] OTHER -> {"valid", "not_found"}
===============================================================================
