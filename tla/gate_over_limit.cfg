SPECIFICATION Spec
CONSTANTS
  verifier = verifier
  hunter = hunter
  r1 = r1
  r2 = r2
  r3 = r3
  r4 = r4
  Vendors = {verifier}
  Requests = {r1, r2, r3}
  VendorOf <- MCVendorOf
  Sems = {s1, s2}
  NoSem = NoSem
  DefaultLimit <- MCDefault
  Settings = {2}
  Cap = 2
  MaxRetries = 1
  MaxConfigures = 1
INVARIANT
  VendorLimitHeld
CHECK_DEADLOCK FALSE
