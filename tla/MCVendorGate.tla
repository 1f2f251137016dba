----------------------------- MODULE MCVendorGate -----------------------------
(* Small instances of VendorGate: up to four requests, three of them at one
   vendor whose limit is two or one, and at most one reconfiguration. *)
EXTENDS VendorGate

CONSTANTS verifier, hunter, r1, r2, r3, r4

MCVendorOf == [r \in Requests |-> IF r = r4 THEN hunter ELSE verifier]
MCDefault == [v \in Vendors |-> IF v = hunter THEN 1 ELSE 2]

===============================================================================
